---- MODULE Spec2Model ----
(***************************************************************************)
(* State-machine model of test_data/subset_utils.py: one run of            *)
(* run_subset over a phospho and a protein dataset.  Workbooks are         *)
(* sequences of sheets, a sheet is a header plus an ordered list of rows,  *)
(* a row is a record indexed by column name.  random.sample is a           *)
(* nondeterministic choice of k distinct positions of its population.      *)
(* The disk is the set of directories and of files that exist; an          *)
(* exception ends the run at the step that raised it.                      *)
(***************************************************************************)
EXTENDS Integers, Sequences, FiniteSets, TLC

VARIABLES
    cfg,              \* the configuration record: keep_contrasts, n_phospho, out_dir
    dirs,             \* the directories that exist
    files,            \* the files that exist, as <<directory, name>>
    phospho_src,      \* source phospho workbook: sheet name -> [headers, rows]
    protein_src,      \* source protein workbook
    phospho_pq_src,   \* source phospho lfqdata_normalized.parquet (rows)
    protein_pq_src,   \* source protein lfqdata_normalized.parquet (rows)
    phospho_annot_src,\* source phospho annotation TSV: [fieldnames, rows, newline]
    protein_annot_src,\* source protein annotation TSV
    pc,               \* position of run_subset
    error,            \* the exception that ended the run, "" when none
    raised_at,        \* the position at which it was raised
    events,           \* what the run has done so far to files, handles and the
                      \* random generator, in order, as <<operation, target>>
    site_contrasts,   \* select_phosphosites: site -> contrasts with non-null FDR
    site_meta,        \* select_phosphosites: validity map from the wide sheet
    complete_sites,   \* select_phosphosites: list of complete candidates
    partial_sites,    \* select_phosphosites: contrast -> list of partial candidates
    n_complete,
    n_partial,
    n_per_contrast,
    selected_sites,   \* select_phosphosites: the growing selection
    ci,               \* index of the next key of partial_sites to visit
    draws,            \* the calls of random.sample so far, in order
    keep_sites,       \* run_subset: site keep-set
    phospho_proteins, \* run_subset: owning-protein ids of keep_sites
    keep_proteins,    \* run_subset: protein keep-set
    phospho_out,      \* written phospho workbook
    protein_out,      \* written protein workbook
    phospho_pq_out,   \* written phospho parquet
    protein_pq_out,   \* written protein parquet
    yaml_out,         \* the lfqdata.yaml files copied so far
    phospho_annot_out,\* written phospho annotation TSV
    protein_annot_out \* written protein annotation TSV

vars == <<cfg, dirs, files, phospho_src, protein_src, phospho_pq_src, protein_pq_src,
          phospho_annot_src, protein_annot_src, pc, error, raised_at, events,
          site_contrasts, site_meta, complete_sites, partial_sites, n_complete,
          n_partial, n_per_contrast, selected_sites, ci, draws, keep_sites,
          phospho_proteins, keep_proteins, phospho_out, protein_out,
          phospho_pq_out, protein_pq_out, yaml_out, phospho_annot_out,
          protein_annot_out>>

(***************************************************************************)
(* Python values                                                           *)
(***************************************************************************)
None == "<None>"
PyTrue == "<True>"
PyFalse == "<False>"

\* x in lst, for a Python list
InList(x, lst) == \E i \in DOMAIN lst : lst[i] = x

Range(seq) == {seq[i] : i \in DOMAIN seq}

Min(a, b) == IF a <= b THEN a ELSE b

Max(a, b) == IF a >= b THEN a ELSE b

RECURSIVE SumLens(_, _)
SumLens(f, keys) ==
    IF keys = {} THEN 0
    ELSE LET k == CHOOSE k \in keys : TRUE
         IN Len(f[k]) + SumLens(f, keys \ {k})

(***************************************************************************)
(* Program constants                                                       *)
(***************************************************************************)
MinSequenceWindow == 7

PartialDivisor == 5

\* the truthy spellings of a REV / CON cell
TrueSpellings == {PyTrue, "True", "TRUE"}

\* the sheet names filtered by entity key alone
EntityKeyedSheets ==
    {"diff_exp_analysis_wide", "normalized_abundances", "raw_abundances_matrix",
     "normalized_abundances_matrix", "missing_information", "stats_normalized",
     "stats_normalized_wide", "stats_raw", "stats_raw_wide"}

PassThroughSheets == {"annotation", "formula"}

SummaryHeaders ==
    <<"totalNrOfProteins", "percentOfContaminants", "percentOfFalsePositives",
      "NrOfProteinsNoDecoys">>

(***************************************************************************)
(* read_xlsx_sheet: the (headers, rows) of a sheet of a workbook            *)
(***************************************************************************)
read_xlsx_sheet(wb, sheet_name) == wb.sheets[sheet_name]

(***************************************************************************)
(* select_phosphosites, lines 80-142: the tables built from the two sheets *)
(***************************************************************************)
EmptyDict == [k \in {} |-> {}]

\* lines 86-95: site -> set of kept contrasts with a non-null FDR; a dict, so
\* the keys keep their order of first insertion
RECURSIVE build_site_contrasts(_, _, _)
build_site_contrasts(rows, keep_contrasts, acc) ==
    IF rows = <<>> THEN acc
    ELSE LET row == Head(rows)
             contrast == row.contrast
             site == row.site
             withKey == IF site \in DOMAIN acc.val THEN acc
                        ELSE [order |-> Append(acc.order, site),
                              val |-> acc.val @@ (site :> {})]
             next == IF ~InList(contrast, keep_contrasts) THEN acc
                     ELSE IF row.FDR # None
                          THEN [withKey EXCEPT !.val[site] = @ \cup {contrast}]
                          ELSE withKey
         IN build_site_contrasts(Tail(rows), keep_contrasts, next)

IsValidRowMutant(row) ==
    /\ row.REV \notin TrueSpellings
    /\ ~(row.SequenceWindow = None \/ row.SequenceWindow = ""
         \/ row.SequenceWindow = "None"
         \/ Len(row.SequenceWindow) < MinSequenceWindow)

\* lines 110-116: the row passes the REV, CON and SequenceWindow tests
IsValidRow(row) ==
    /\ row.REV \notin TrueSpellings
    /\ row.CON \notin TrueSpellings
    /\ ~(row.SequenceWindow = None \/ row.SequenceWindow = ""
         \/ row.SequenceWindow = "None"
         \/ Len(row.SequenceWindow) < MinSequenceWindow)

\* lines 107-120: the validity map; a later valid row of a site overwrites an
\* earlier one, an invalid row changes nothing
RECURSIVE build_site_meta(_, _)
build_site_meta(w_rows, acc) ==
    IF w_rows = <<>> THEN acc
    ELSE LET row == Head(w_rows)
             entry == [modAA |-> row.modAA, protein_Id |-> row.protein_Id]
             next == IF ~IsValidRow(row) THEN acc
                     ELSE IF row.site \in DOMAIN acc
                          THEN [acc EXCEPT ![row.site] = entry]
                          ELSE acc @@ (row.site :> entry)
         IN build_site_meta(Tail(w_rows), next)

IsCompleteMutant(contrasts, n_contrasts) == Cardinality(contrasts) >= 1

\* line 130: the coverage test that makes a site complete
IsComplete(contrasts, n_contrasts) == Cardinality(contrasts) = n_contrasts

\* lines 124-131: the complete candidates, in the order of site_contrasts
build_complete_sites(sc, meta, n_contrasts) ==
    LET Test(site) == site \in DOMAIN meta /\ IsComplete(sc.val[site], n_contrasts)
    IN SelectSeq(sc.order, Test)

\* lines 125-135: contrast -> the partial candidates present in it
build_partial_sites(sc, meta, keep_contrasts) ==
    [c \in Range(keep_contrasts) |->
        LET Test(site) == /\ site \in DOMAIN meta
                          /\ ~IsComplete(sc.val[site], Len(keep_contrasts))
                          /\ c \in sc.val[site]
        IN SelectSeq(sc.order, Test)]

\* the keys of partial_sites in dict order: keep_contrasts without repeats
RECURSIVE DictKeys(_, _)
DictKeys(lst, seen) ==
    IF lst = <<>> THEN <<>>
    ELSE IF Head(lst) \in seen THEN DictKeys(Tail(lst), seen)
         ELSE <<Head(lst)>> \o DictKeys(Tail(lst), seen \cup {Head(lst)})

\* random.sample(population, k): the sets of k elements at distinct positions
Sample(population, k) ==
    {{population[i] : i \in I} :
        I \in {J \in SUBSET DOMAIN population : Cardinality(J) = k}}

NPartialMutant(n_phospho, partial) == Min(n_phospho, SumLens(partial, DOMAIN partial))

\* line 142
NPartial(n_phospho, partial) ==
    Min(n_phospho \div PartialDivisor, SumLens(partial, DOMAIN partial))

NCompleteMutant(n_phospho, complete) == Len(complete)

\* line 141
NComplete(n_phospho, complete) == Min(n_phospho, Len(complete))

NPerContrastMutant(n, n_contrasts) == Max(2, n \div n_contrasts)

\* line 147
NPerContrast(n, n_contrasts) == Max(1, n \div n_contrasts)

AvailableMutant(sites, selected) == sites

\* line 149
Available(sites, selected) ==
    LET Test(s) == s \notin selected IN SelectSeq(sites, Test)

NPickMutant(per_contrast, available) == Len(available)

\* line 150
NPick(per_contrast, available) == Min(per_contrast, Len(available))

\* line 154
OwningProteins(meta, selected) == {meta[s].protein_Id : s \in selected}

(***************************************************************************)
(* select_proteins, lines 170-178                                          *)
(***************************************************************************)
select_proteins_unfiltered(protein_wb, phospho_protein_ids) == phospho_protein_ids

select_proteins_all(protein_wb, phospho_protein_ids) ==
    LET rows == read_xlsx_sheet(protein_wb, "diff_exp_analysis_wide").rows
    IN {rows[i].protein_Id : i \in DOMAIN rows}

select_proteins(protein_wb, phospho_protein_ids) ==
    LET rows == read_xlsx_sheet(protein_wb, "diff_exp_analysis_wide").rows
        all_protein_set == {rows[i].protein_Id : i \in DOMAIN rows}
    IN phospho_protein_ids \cap all_protein_set

(***************************************************************************)
(* _update_summary, lines 185-206.  A percentage is kept in hundredths:    *)
(* round(100 * count / n_total, 2) is the integer nearest to               *)
(* 10000 * count / n_total, ties to the even one.                          *)
(***************************************************************************)
RoundPct(count, n_total) ==
    IF n_total = 0 THEN 0
    ELSE LET q == (10000 * count) \div n_total
             r == (10000 * count) % n_total
         IN IF 2 * r < n_total THEN q
            ELSE IF 2 * r > n_total THEN q + 1
            ELSE IF q % 2 = 0 THEN q ELSE q + 1

CountTrueMutant(data, col) == Cardinality({i \in DOMAIN data : data[i][col] = PyTrue})

CountTrue(data, col) ==
    Cardinality({i \in DOMAIN data : data[i][col] \in TrueSpellings})

FlagCountMutant(hdrs, data, col) ==
    IF InList(col, hdrs) THEN CountTrue(data, col) ELSE Len(data)

\* lines 190-199: the flagged rows; none when the sheet has no such column
FlagCount(hdrs, data, col) ==
    IF InList(col, hdrs) THEN CountTrue(data, col) ELSE 0

WithSummaryKeyMutant(sheetnames) == Append(sheetnames, "summary")

\* line 202: assigning sheets["summary"] keeps the position of an existing
\* key and puts a new key last
WithSummaryKey(sheetnames) ==
    IF InList("summary", sheetnames) THEN sheetnames ELSE Append(sheetnames, "summary")

update_summary(wb) ==
    LET hdrs == wb.sheets["diff_exp_analysis_wide"].headers
        data == wb.sheets["diff_exp_analysis_wide"].rows
        n_total == Len(data)
        rev_count == FlagCount(hdrs, data, "REV")
        con_count == FlagCount(hdrs, data, "CON")
        summary ==
            [headers |-> SummaryHeaders,
             rows |-> << [totalNrOfProteins |-> n_total,
                          percentOfContaminants |-> RoundPct(con_count, n_total),
                          percentOfFalsePositives |-> RoundPct(rev_count, n_total),
                          NrOfProteinsNoDecoys |-> n_total - rev_count - con_count] >>]
    IN [sheetnames |-> WithSummaryKey(wb.sheetnames),
        sheets |-> [n \in DOMAIN wb.sheets \cup {"summary"} |->
                        IF n = "summary" THEN summary ELSE wb.sheets[n]]]

(***************************************************************************)
(* filter_phospho_xlsx, lines 209-255, and filter_protein_xlsx, 258-304    *)
(***************************************************************************)
\* lines 248 and 297: the row's entity key is in the keep-set
KeepEntityRow(r, key, keep) == r[key] \in keep

KeepLongRowMutant(r, key, keep, keep_contrasts) == r[key] \in keep

\* lines 234 and 283
KeepLongRow(r, key, keep, keep_contrasts) ==
    r[key] \in keep /\ InList(r.contrast, keep_contrasts)

\* lines 226 and 275
KeepContrastRow(r, keep_contrasts) == InList(r.contrast_name, keep_contrasts)

\* lines 219, 222, 252 and 268, 271, 301: sheets[sheet_name] = (headers, rows)
CopySheetMutant(sheet) == [headers |-> sheet.headers, rows |-> <<>>]

CopySheet(sheet) == sheet

\* the columns whose position the branch of a sheet looks up with headers.index
KeyColumns(sheet_name, key) ==
    IF sheet_name \in PassThroughSheets \cup {"summary"} THEN {}
    ELSE IF sheet_name = "contrasts" THEN {"contrast_name"}
    ELSE IF sheet_name = "diff_exp_analysis" THEN {key, "contrast"}
    ELSE IF sheet_name \in EntityKeyedSheets THEN {key}
    ELSE {}

\* list.index raises ValueError for a value that is not in the list
IndexRaises(headers, cols) == \E c \in cols : ~InList(c, headers)

\* what a call leaves in place of its result when it raises
Raised == [raised |-> "ValueError"]

MissingKeyMutant(sheet) == sheet

\* lines 225, 230, 231, 247: the ValueError of headers.index leaves the loop
MissingKey(sheet) == Raised

\* the branch of the loop body taken for one sheet, for the key column `key`
FilterSheet(sheet_name, sheet, key, keep, keep_contrasts) ==
    LET TestContrast(r) == KeepContrastRow(r, keep_contrasts)
        TestLong(r) == KeepLongRow(r, key, keep, keep_contrasts)
        TestEntity(r) == KeepEntityRow(r, key, keep)
    IN IF IndexRaises(sheet.headers, KeyColumns(sheet_name, key)) THEN MissingKey(sheet)
       ELSE IF sheet_name \in PassThroughSheets THEN CopySheet(sheet)
       ELSE IF sheet_name = "summary" THEN CopySheet(sheet)
       ELSE IF sheet_name = "contrasts"
            THEN [headers |-> sheet.headers, rows |-> SelectSeq(sheet.rows, TestContrast)]
       ELSE IF sheet_name = "diff_exp_analysis"
            THEN [headers |-> sheet.headers, rows |-> SelectSeq(sheet.rows, TestLong)]
       ELSE IF sheet_name \in EntityKeyedSheets
            THEN [headers |-> sheet.headers, rows |-> SelectSeq(sheet.rows, TestEntity)]
       ELSE CopySheet(sheet)

\* the loop over wb.sheetnames and the summary; Raised when a branch raises
FilterWorkbook(wb, key, keep, keep_contrasts) ==
    LET sheets == [n \in Range(wb.sheetnames) |->
                      FilterSheet(n, read_xlsx_sheet(wb, n), key, keep, keep_contrasts)]
    IN IF \E n \in Range(wb.sheetnames) : sheets[n] = Raised THEN Raised
       ELSE update_summary([sheetnames |-> wb.sheetnames, sheets |-> sheets])

filter_phospho_xlsx(wb, keep, keep_contrasts) ==
    FilterWorkbook(wb, "site", keep, keep_contrasts)

filter_protein_xlsx(wb, keep, keep_contrasts) ==
    FilterWorkbook(wb, "protein_Id", keep, keep_contrasts)

(***************************************************************************)
(* filter_parquet, lines 311-320                                           *)
(***************************************************************************)
\* line 316: table.column(filter_col) raises KeyError for a table without
\* the column (a table without rows is taken to have it)
parquet_raises(table, filter_col) ==
    \E i \in DOMAIN table : filter_col \notin DOMAIN table[i]

filter_parquet_mutant(table, filter_col, keep_values) == table

filter_parquet(table, filter_col, keep_values) ==
    LET Mask(r) == r[filter_col] \in keep_values
    IN SelectSeq(table, Mask)

(***************************************************************************)
(* filter_annotation_tsv, lines 327-354, for a list as keep_contrasts (for *)
(* None no row is rewritten).  A file is its header, its rows and the      *)
(* line ending it uses.                                                    *)
(***************************************************************************)
\* str.strip on the cell values that occur
Strip(v) ==
    IF v = " X " THEN "X"
    ELSE IF v = " Z " THEN "Z"
    ELSE IF v = " NA " THEN "NA"
    ELSE IF v = " " THEN ""
    ELSE v

NulledMutant(row, keep_contrasts) ==
    LET cn == row.ContrastName
    IN cn # "" /\ cn # "NA" /\ ~InList(cn, keep_contrasts)

\* lines 347-348: the row's contrast is set to NA
Nulled(row, keep_contrasts) ==
    LET cn == Strip(row.ContrastName)
    IN cn # "" /\ cn # "NA" /\ ~InList(cn, keep_contrasts)

\* lines 349-351: the row as the writer gets it
OutRow(table, row, keep_contrasts) ==
    IF InList("ContrastName", table.fieldnames) /\ Nulled(row, keep_contrasts)
    THEN [f \in DOMAIN row \cup {"ContrastName", "Contrast"} |->
             IF f \in {"ContrastName", "Contrast"} THEN "NA" ELSE row[f]]
    ELSE row

\* DictWriter.writerow raises ValueError for a key that is not a field name
WriterRaises(table, row, keep_contrasts) ==
    DOMAIN OutRow(table, row, keep_contrasts) # Range(table.fieldnames)

\* the rows written until a row raises
RowsWritten(table, keep_contrasts) ==
    LET bad == {i \in DOMAIN table.rows : WriterRaises(table, table.rows[i], keep_contrasts)}
        n == IF bad = {} THEN Len(table.rows)
             ELSE (CHOOSE i \in bad : \A j \in bad : i <= j) - 1
    IN [i \in 1..n |-> OutRow(table, table.rows[i], keep_contrasts)]

annotation_raises(table, keep_contrasts) ==
    \E i \in DOMAIN table.rows : WriterRaises(table, table.rows[i], keep_contrasts)

\* the file at dest_path: the writer ends every line with "\r\n"
filter_annotation_tsv(table, keep_contrasts) ==
    [fieldnames |-> table.fieldnames,
     rows |-> RowsWritten(table, keep_contrasts),
     newline |-> "CRLF"]

(***************************************************************************)
(* Input files.  Every site has one of a few row patterns in the long and  *)
(* the wide sheet; the sheets list the sites in a fixed order.             *)
(***************************************************************************)
MaxN == 3

MaxQuota == 4

SiteList == <<"s1", "s2", "s3">>

QuotaSiteList == <<"s1", "s2", "s3", "s4", "s5">>

ProteinList == <<"p1", "p2", "p3">>

ProteinOf ==
    [s \in Range(QuotaSiteList) |->
        IF s = "s3" THEN "p2" ELSE IF s = "s5" THEN "p3" ELSE "p1"]

Profiles == {"complete", "x_only", "y_only", "all_null", "invalid", "dup", "no_wide"}

\* the kept-contrasts set in its iteration order: lists without repeats
KeepContrastLists == {<<>>, <<"X">>, <<"X", "Y">>, <<"Y", "X">>}

LongRow(key, k, c, fdr) == (key :> k) @@ [contrast |-> c, FDR |-> fdr]

LongRowsOf(s, profile) ==
    IF profile = "x_only"
    THEN <<LongRow("site", s, "X", "0.01"), LongRow("site", s, "Y", None)>>
    ELSE IF profile = "y_only" THEN <<LongRow("site", s, "Y", "0.01")>>
    ELSE IF profile = "all_null"
    THEN <<LongRow("site", s, "X", None), LongRow("site", s, "Y", None)>>
    ELSE <<LongRow("site", s, "X", "0.01"), LongRow("site", s, "Y", "0.20")>>

GoodRow(s) ==
    [site |-> s, REV |-> PyFalse, CON |-> "False", SequenceWindow |-> "AAASPAA",
     modAA |-> "S", protein_Id |-> ProteinOf[s]]

\* an invalid row: a decoy for s1, a contaminant for s2, a short window for s3
BadRow(s) ==
    IF s = "s1" THEN [GoodRow(s) EXCEPT !.REV = "TRUE"]
    ELSE IF s = "s2" THEN [GoodRow(s) EXCEPT !.CON = PyTrue]
    ELSE [GoodRow(s) EXCEPT !.SequenceWindow = "AASPAA"]

WideRowsOf(s, profile) ==
    IF profile = "no_wide" THEN <<>>
    ELSE IF profile = "invalid" THEN <<BadRow(s)>>
    ELSE IF profile = "dup" THEN <<GoodRow(s), BadRow(s)>>
    ELSE <<GoodRow(s)>>

RECURSIVE Flatten(_)
Flatten(seqs) == IF seqs = <<>> THEN <<>> ELSE Head(seqs) \o Flatten(Tail(seqs))

Sheet(headers, rows) == [headers |-> headers, rows |-> rows]

ContrastsSheet ==
    Sheet(<<"contrast_name">>,
          <<[contrast_name |-> "X"], [contrast_name |-> "Z"], [contrast_name |-> "Y"]>>)

SourceSummary ==
    Sheet(SummaryHeaders,
          <<[totalNrOfProteins |-> 900, percentOfContaminants |-> 150,
             percentOfFalsePositives |-> 50, NrOfProteinsNoDecoys |-> 880]>>)

Workbook(names, sheets) == [sheetnames |-> names, sheets |-> sheets]

PhosphoWorkbook(sites, profile) ==
    Workbook(
        <<"summary", "contrasts", "diff_exp_analysis", "diff_exp_analysis_wide",
          "normalized_abundances", "annotation", "notes">>,
        [summary |-> SourceSummary,
         contrasts |-> ContrastsSheet,
         diff_exp_analysis |->
            Sheet(<<"site", "contrast", "FDR">>,
                  Flatten([i \in DOMAIN sites |->
                              LongRowsOf(sites[i], profile[sites[i]])])),
         diff_exp_analysis_wide |->
            Sheet(<<"site", "REV", "CON", "SequenceWindow", "modAA", "protein_Id">>,
                  Flatten([i \in DOMAIN sites |->
                              WideRowsOf(sites[i], profile[sites[i]])])),
         normalized_abundances |->
            Sheet(<<"site", "sampleName">>,
                  [i \in DOMAIN sites |-> [site |-> sites[i], sampleName |-> "A"]]),
         annotation |-> Sheet(<<"sampleName", "group">>,
                              <<[sampleName |-> "A", group |-> "ctrl"]>>),
         notes |-> Sheet(<<"text">>, <<[text |-> "free text"]>>)])

\* p3 is flagged both as a decoy and as a contaminant
ProteinWideRow(p) ==
    [protein_Id |-> p,
     REV |-> IF p = "p3" THEN PyTrue ELSE PyFalse,
     CON |-> IF p = "p3" THEN "True" ELSE "False"]

ProteinWorkbook(present) ==
    LET Present(p) == p \in present
        ids == SelectSeq(ProteinList, Present)
    IN Workbook(
        <<"formula", "summary", "contrasts", "diff_exp_analysis",
          "diff_exp_analysis_wide", "normalized_abundances", "qc_metrics">>,
        [formula |-> Sheet(<<"protein_Id", "formula">>,
                           <<[protein_Id |-> "p2", formula |-> "~ group"]>>),
         qc_metrics |->
            Sheet(<<"protein_Id", "contrast">>,
                  [i \in DOMAIN ProteinList |->
                      [protein_Id |-> ProteinList[i], contrast |-> "Z"]]),
         summary |-> SourceSummary,
         contrasts |-> ContrastsSheet,
         diff_exp_analysis |->
            Sheet(<<"protein_Id", "contrast", "FDR">>,
                  Flatten([i \in DOMAIN ProteinList |->
                              <<LongRow("protein_Id", ProteinList[i], "X", "0.03"),
                                LongRow("protein_Id", ProteinList[i], "Y", None)>>])),
         diff_exp_analysis_wide |->
            Sheet(<<"protein_Id", "REV", "CON">>,
                  [i \in DOMAIN ids |-> ProteinWideRow(ids[i])]),
         normalized_abundances |->
            Sheet(<<"protein_Id", "sampleName">>,
                  [i \in DOMAIN ProteinList |->
                      [protein_Id |-> ProteinList[i], sampleName |-> "A"]])])

\* a long-format parquet table: two samples for every key of `present`
ParquetTable(key, keys, present) ==
    LET Present(k) == k \in present
        ids == SelectSeq(keys, Present)
    IN Flatten([i \in DOMAIN ids |->
                   <<(key :> ids[i]) @@ [sampleName |-> "A"],
                     (key :> ids[i]) @@ [sampleName |-> "B"]>>])

\* a workbook without one of its sheets
WithoutSheet(wb, name) ==
    LET Other(n) == n # name
    IN Workbook(SelectSeq(wb.sheetnames, Other),
                [n \in DOMAIN wb.sheets \ {name} |-> wb.sheets[n]])

\* a workbook one of whose sheets lacks a column
WithoutColumn(wb, name, col) ==
    LET Other(h) == h # col
        sheet == wb.sheets[name]
        Cut(r) == [f \in DOMAIN r \ {col} |-> r[f]]
    IN Workbook(wb.sheetnames,
                [n \in DOMAIN wb.sheets |->
                    IF n = name
                    THEN Sheet(SelectSeq(sheet.headers, Other),
                               [i \in DOMAIN sheet.rows |-> Cut(sheet.rows[i])])
                    ELSE wb.sheets[n]])

\* a workbook one of whose sheets has no row at all, lines 25-26
WithEmptySheet(wb, name) ==
    Workbook(wb.sheetnames,
             [n \in DOMAIN wb.sheets |->
                 IF n = name THEN Sheet(<<>>, <<>>) ELSE wb.sheets[n]])

StandardPhospho == PhosphoWorkbook(SiteList, [s \in Range(SiteList) |-> "complete"])

PhosphoVariants ==
    {StandardPhospho,
     WithoutSheet(StandardPhospho, "summary"),
     WithoutColumn(StandardPhospho, "contrasts", "contrast_name"),
     WithoutColumn(StandardPhospho, "diff_exp_analysis", "contrast"),
     WithoutColumn(StandardPhospho, "diff_exp_analysis", "FDR"),
     WithoutColumn(StandardPhospho, "diff_exp_analysis_wide", "site"),
     WithoutColumn(StandardPhospho, "diff_exp_analysis_wide", "REV"),
     WithoutColumn(StandardPhospho, "diff_exp_analysis_wide", "modAA"),
     WithoutColumn(StandardPhospho, "normalized_abundances", "site"),
     WithEmptySheet(StandardPhospho, "normalized_abundances")}

ProteinVariants ==
    {ProteinWorkbook(Range(ProteinList)),
     WithoutSheet(ProteinWorkbook(Range(ProteinList)), "summary"),
     WithoutColumn(ProteinWorkbook(Range(ProteinList)), "contrasts", "contrast_name"),
     WithoutColumn(ProteinWorkbook(Range(ProteinList)), "diff_exp_analysis", "protein_Id"),
     WithoutColumn(ProteinWorkbook(Range(ProteinList)), "diff_exp_analysis_wide",
                   "protein_Id"),
     WithoutColumn(ProteinWorkbook(Range(ProteinList)), "diff_exp_analysis_wide", "REV"),
     WithoutColumn(ProteinWorkbook(Range(ProteinList)), "diff_exp_analysis_wide", "CON"),
     WithoutColumn(ProteinWorkbook(Range(ProteinList)), "normalized_abundances",
                   "protein_Id")}

\* a parquet table without one of its columns
TableWithoutColumn(table, col) ==
    [i \in DOMAIN table |-> [f \in DOMAIN table[i] \ {col} |-> table[i][f]]]

\* an annotation table in the ContrastName/Contrast format
ExplicitAnnotation ==
    [newline |-> "LF",
     fieldnames |-> <<"sample", "Group", "ContrastName", "Contrast">>,
     rows |-> <<[sample |-> "a1", Group |-> "A", ContrastName |-> "X", Contrast |-> "A - B"],
                [sample |-> "b1", Group |-> "B", ContrastName |-> " X ", Contrast |-> "A - B"],
                [sample |-> "c1", Group |-> "C", ContrastName |-> "Y", Contrast |-> "C - B"],
                [sample |-> "d1", Group |-> "D", ContrastName |-> "Z", Contrast |-> "D - B"],
                [sample |-> "e1", Group |-> "E", ContrastName |-> "NA", Contrast |-> "NA"],
                [sample |-> "f1", Group |-> "F", ContrastName |-> "", Contrast |-> ""]>>]

\* an annotation table in the Group/Control format
GroupControlAnnotation ==
    [newline |-> "LF",
     fieldnames |-> <<"sample", "Group", "Control">>,
     rows |-> <<[sample |-> "a1", Group |-> "A", Control |-> "T"],
                [sample |-> "b1", Group |-> "B", Control |-> "C"]>>]

NoTable == [fieldnames |-> <<>>, rows |-> <<>>, newline |-> ""]

\* the tables filter_annotation_tsv is called on: two rows, with or without
\* the ContrastName and the Contrast column, in either line ending
ContrastNameCells == {"X", " X ", "Y", "Z", " Z ", "NA", " NA ", "", " "}

AnnotationHeaders ==
    {<<"sample", "ContrastName", "Contrast">>, <<"sample", "ContrastName">>,
     <<"sample", "Group", "Contrast">>, <<"sample", "Group", "Control">>}

AnnotationRow(fieldnames, sample, cell) ==
    [f \in Range(fieldnames) |->
        IF f = "sample" THEN sample
        ELSE IF f \in {"ContrastName", "Group"} THEN cell
        ELSE IF f = "Contrast" THEN "A - B"
        ELSE "C"]

AnnotationTables ==
    {[fieldnames |-> h,
      rows |-> <<AnnotationRow(h, "a1", c1), AnnotationRow(h, "b1", c2)>>,
      newline |-> nl] :
        h \in AnnotationHeaders, c1 \in ContrastNameCells, c2 \in {"X", "Z", " "},
        nl \in {"LF", "CRLF"}}

(***************************************************************************)
(* Paths, lines 375-472.  A directory is named by its path, a file is      *)
(* <<directory, name>> with the name standing for its path below the       *)
(* directory; the output tree repeats the names of the source tree.        *)
(***************************************************************************)
SrcDir == "src"

\* cfg["out_dir"]: apart from the source directory, the source directory
\* itself, a directory inside it
OutDirs == {"out", "src", "src/subset"}

\* directory d is root or lies below it
Under(d, root) == d = root \/ (root = "src" /\ d = "src/subset")

PhosphoXlsx == "phospho/results/DE.xlsx"

ProteinXlsx == "protein/results/DE.xlsx"

PhosphoParquet == "phospho/results/lfqdata_normalized.parquet"

ProteinParquet == "protein/results/lfqdata_normalized.parquet"

PhosphoYaml == "phospho/results/lfqdata.yaml"

ProteinYaml == "protein/results/lfqdata.yaml"

PhosphoAnnot == "phospho/inputs/annotation.tsv"

ProteinAnnot == "protein/inputs/annotation.tsv"

RequiredFiles ==
    {PhosphoXlsx, ProteinXlsx, PhosphoParquet, ProteinParquet, PhosphoYaml,
     ProteinYaml, PhosphoAnnot, ProteinAnnot}

\* a file an earlier run left in the output directory
StaleFile == "phospho/results/old.xlsx"

\* shutil.rmtree, line 405
RmTreeDirs(ds, d) == {x \in ds : ~Under(x, d)}

RmTreeFiles(fs, d) == {f \in fs : ~Under(f[1], d)}

\* Path.mkdir(parents=True, exist_ok=True), line 412
MkDirs(ds, d) == ds \cup {x \in OutDirs : Under(d, x)}

\* every input file is there; the output directory is apart and holds a prior tree
StandardDisk ==
    /\ dirs = {SrcDir, "out"}
    /\ files = {<<SrcDir, f>> : f \in RequiredFiles} \cup {<<"out", StaleFile>>}

NoWorkbook == Workbook(<<>>, EmptyDict)

\* nothing has run: the locals are unset and nothing is written
Blank ==
    /\ error = ""
    /\ raised_at = ""
    /\ events = <<>>
    /\ site_contrasts = [order |-> <<>>, val |-> EmptyDict]
    /\ site_meta = EmptyDict
    /\ complete_sites = <<>>
    /\ partial_sites = EmptyDict
    /\ n_complete = 0
    /\ n_partial = 0
    /\ n_per_contrast = 0
    /\ selected_sites = {}
    /\ ci = 0
    /\ draws = <<>>
    /\ keep_sites = {}
    /\ phospho_proteins = {}
    /\ keep_proteins = {}
    /\ phospho_out = NoWorkbook
    /\ protein_out = NoWorkbook
    /\ phospho_pq_out = <<>>
    /\ protein_pq_out = <<>>
    /\ yaml_out = {}
    /\ phospho_annot_out = NoTable
    /\ protein_annot_out = NoTable

Unset ==
    /\ pc = "start"
    /\ phospho_annot_src = ExplicitAnnotation
    /\ protein_annot_src = GroupControlAnnotation
    /\ Blank

\* the selection inputs vary; the companion files are fixed
InitSelect ==
    /\ \E profile \in [Range(SiteList) -> Profiles] :
          phospho_src = PhosphoWorkbook(SiteList, profile)
    /\ \E kc \in KeepContrastLists, n \in 0..MaxN :
          cfg = [keep_contrasts |-> kc, n_phospho |-> n, out_dir |-> "out"]
    /\ StandardDisk
    /\ protein_src = ProteinWorkbook({"p1", "p3"})
    /\ phospho_pq_src = ParquetTable("site", SiteList, Range(SiteList))
    /\ protein_pq_src = ParquetTable("protein_Id", ProteinList, Range(ProteinList))
    /\ Unset

\* many partial candidates and targets that are multiples of the divisor
InitQuota ==
    /\ \E profile \in [Range(QuotaSiteList) -> {"complete", "x_only", "y_only"}] :
          /\ \A s \in Range(QuotaSiteList) \ {"s1"} : profile[s] # "complete"
          /\ phospho_src = PhosphoWorkbook(QuotaSiteList, profile)
    /\ \E q \in 0..MaxQuota :
          cfg = [keep_contrasts |-> <<"X", "Y">>, n_phospho |-> PartialDivisor * q,
                 out_dir |-> "out"]
    /\ StandardDisk
    /\ protein_src = ProteinWorkbook({"p1", "p3"})
    /\ phospho_pq_src = ParquetTable("site", QuotaSiteList, Range(QuotaSiteList))
    /\ protein_pq_src = ParquetTable("protein_Id", ProteinList, Range(ProteinList))
    /\ Unset

\* the companion files vary; the selection inputs are few
InitFilter ==
    /\ \E profile \in [Range(SiteList) -> {"complete", "x_only"}] :
          phospho_src = PhosphoWorkbook(SiteList, profile)
    /\ \E n \in {1, MaxN} :
          cfg = [keep_contrasts |-> <<"X", "Y">>, n_phospho |-> n, out_dir |-> "out"]
    /\ StandardDisk
    /\ \E present \in SUBSET Range(ProteinList) :
          protein_src = ProteinWorkbook(present)
    /\ \E present \in {Range(SiteList), {"s1", "s2"}, {"s3"}, {}} :
          phospho_pq_src = ParquetTable("site", SiteList, present)
    /\ \E present \in {Range(ProteinList), {"p2", "p3"}} :
          protein_pq_src = ParquetTable("protein_Id", ProteinList, present)
    /\ Unset

\* one input is absent: the source directory or one of the files
InitMissing ==
    /\ \E m \in RequiredFiles \cup {SrcDir}, prior \in BOOLEAN :
          /\ dirs = (IF m = SrcDir THEN {} ELSE {SrcDir})
                        \cup (IF prior THEN {"out"} ELSE {})
          /\ files = (IF m = SrcDir THEN {}
                      ELSE {<<SrcDir, f>> : f \in RequiredFiles \ {m}})
                         \cup (IF prior THEN {<<"out", StaleFile>>} ELSE {})
    /\ cfg = [keep_contrasts |-> <<"X", "Y">>, n_phospho |-> 1, out_dir |-> "out"]
    /\ phospho_src = StandardPhospho
    /\ protein_src = ProteinWorkbook(Range(ProteinList))
    /\ phospho_pq_src = ParquetTable("site", SiteList, Range(SiteList))
    /\ protein_pq_src = ParquetTable("protein_Id", ProteinList, Range(ProteinList))
    /\ Unset

\* the output directory is the source directory or lies inside it
InitLayout ==
    /\ \E o \in OutDirs \ {"out"}, prior \in BOOLEAN :
          /\ cfg = [keep_contrasts |-> <<"X", "Y">>, n_phospho |-> 1, out_dir |-> o]
          /\ dirs = {SrcDir} \cup (IF prior THEN {o} ELSE {})
          /\ files = {<<SrcDir, f>> : f \in RequiredFiles}
                         \cup (IF prior /\ o # SrcDir THEN {<<o, StaleFile>>} ELSE {})
    /\ phospho_src = StandardPhospho
    /\ protein_src = ProteinWorkbook(Range(ProteinList))
    /\ phospho_pq_src = ParquetTable("site", SiteList, Range(SiteList))
    /\ protein_pq_src = ParquetTable("protein_Id", ProteinList, Range(ProteinList))
    /\ Unset

\* a workbook has an unusual set of sheets or of columns
InitSchema ==
    /\ phospho_src \in PhosphoVariants
    /\ protein_src \in ProteinVariants
    /\ cfg = [keep_contrasts |-> <<"X", "Y">>, n_phospho |-> 2, out_dir |-> "out"]
    /\ StandardDisk
    /\ phospho_pq_src \in
          {ParquetTable("site", SiteList, Range(SiteList)),
           TableWithoutColumn(ParquetTable("site", SiteList, Range(SiteList)), "site")}
    /\ protein_pq_src \in
          {ParquetTable("protein_Id", ProteinList, Range(ProteinList)),
           TableWithoutColumn(ParquetTable("protein_Id", ProteinList, Range(ProteinList)),
                              "protein_Id")}
    /\ Unset

\* three kept contrasts: a site measured in X and Y but not in Z is a partial
\* candidate of both X and Y
InitOverlap ==
    /\ \E profile \in [Range(SiteList) -> {"complete", "x_only"}] :
          phospho_src = PhosphoWorkbook(SiteList, profile)
    /\ \E kc \in {<<"X", "Y", "Z">>, <<"Z", "Y", "X">>},
          n \in {MaxN, PartialDivisor * (MaxQuota + 2)} :
          cfg = [keep_contrasts |-> kc, n_phospho |-> n, out_dir |-> "out"]
    /\ StandardDisk
    /\ protein_src = ProteinWorkbook({"p1", "p3"})
    /\ phospho_pq_src = ParquetTable("site", SiteList, Range(SiteList))
    /\ protein_pq_src = ParquetTable("protein_Id", ProteinList, Range(ProteinList))
    /\ Unset

Init ==
    \/ InitSelect
    \/ InitQuota
    \/ InitFilter
    \/ InitMissing
    \/ InitLayout
    \/ InitSchema
    \/ InitOverlap


(***************************************************************************)
(* run_subset, lines 361-447, one action per step                          *)
(***************************************************************************)
inputs == <<cfg, phospho_src, protein_src, phospho_pq_src, protein_pq_src,
            phospho_annot_src, protein_annot_src>>

disk == <<dirs, files>>

select_locals == <<site_contrasts, site_meta, complete_sites, partial_sites,
                   n_complete, n_partial, n_per_contrast, selected_sites, ci>>

selection == <<keep_sites, phospho_proteins, keep_proteins>>

outputs == <<phospho_out, protein_out, phospho_pq_out, protein_pq_out, yaml_out,
             phospho_annot_out, protein_annot_out>>

\* an exception leaves run_subset; nothing catches it
Raise(exc) ==
    /\ pc' = "failed"
    /\ error' = exc
    /\ raised_at' = pc

Goto(next) ==
    /\ pc' = next
    /\ UNCHANGED <<error, raised_at>>

\* one entry of the record of what the run has done
Event(op, target) == << <<op, target>> >>

Log(entries) == events' = events \o entries

\* line 373: random.seed(cfg["seed"])
random_seed == Event("seed", "random")

random_sample_mutant(pool) == Event("seed", "random") \o Event("sample", pool)

\* lines 144 and 152: one call of random.sample
random_sample(pool) == Event("sample", pool)

\* lines 390, 399, 416, 426: a read handle on a workbook
load_workbook(name) == Event("open", name)

close_mutant(name) == <<>>

\* lines 395, 401, 418, 428: wb.close()
close(name) == Event("close", name)

\* open(), load_workbook, read_table and copy2 raise FileNotFoundError
Absent(name) == <<SrcDir, name>> \notin files

\* lines 81-83 and 99-104: the header lookups of select_phosphosites
select_raises(wb) ==
    \/ IndexRaises(read_xlsx_sheet(wb, "diff_exp_analysis").headers,
                   {"site", "contrast", "FDR"})
    \/ IndexRaises(read_xlsx_sheet(wb, "diff_exp_analysis_wide").headers,
                   {"site", "REV", "CON", "SequenceWindow", "modAA", "protein_Id"})

\* lines 373-390: seed the generator, resolve the paths, test the source
\* directory, open the phospho workbook
Start ==
    /\ pc = "start"
    /\ IF SrcDir \in dirs /\ ~Absent(PhosphoXlsx)
       THEN Goto("select_phosphosites")
            /\ Log(random_seed \o load_workbook(PhosphoXlsx))
       ELSE Raise("FileNotFoundError") /\ Log(random_seed)
    /\ UNCHANGED <<inputs, disk, select_locals, draws, selection, outputs>>

\* select_phosphosites, lines 80-142: read both sheets, classify the sites
SelectBuild ==
    /\ pc = "select_phosphosites"
    /\ IF select_raises(phospho_src)
       THEN /\ Raise("ValueError")
            /\ UNCHANGED <<site_contrasts, site_meta, complete_sites, partial_sites,
                           n_complete, n_partial>>
       ELSE LET rows == read_xlsx_sheet(phospho_src, "diff_exp_analysis").rows
                w_rows == read_xlsx_sheet(phospho_src, "diff_exp_analysis_wide").rows
                sc == build_site_contrasts(rows, cfg.keep_contrasts,
                                           [order |-> <<>>, val |-> EmptyDict])
                meta == build_site_meta(w_rows, EmptyDict)
                complete == build_complete_sites(sc, meta, Len(cfg.keep_contrasts))
                partial == build_partial_sites(sc, meta, cfg.keep_contrasts)
            IN /\ site_contrasts' = sc
               /\ site_meta' = meta
               /\ complete_sites' = complete
               /\ partial_sites' = partial
               /\ n_complete' = NComplete(cfg.n_phospho, complete)
               /\ n_partial' = NPartial(cfg.n_phospho, partial)
               /\ Goto("sample_complete")
    /\ UNCHANGED <<inputs, disk, events, n_per_contrast, selected_sites, ci, draws,
                   selection, outputs>>

\* lines 144-147: draw the complete sample; n_partial // n_contrasts raises
\* ZeroDivisionError for an empty keep_contrasts
SampleComplete ==
    /\ pc = "sample_complete"
    /\ \E got \in Sample(complete_sites, n_complete) :
          /\ selected_sites' = got
          /\ draws' = Append(draws, [pool |-> "complete", got |-> got])
    /\ Log(random_sample("complete"))
    /\ IF Len(cfg.keep_contrasts) = 0
       THEN /\ Raise("ZeroDivisionError")
            /\ UNCHANGED <<n_per_contrast, ci>>
       ELSE /\ n_per_contrast' = NPerContrast(n_partial, Len(cfg.keep_contrasts))
            /\ ci' = 1
            /\ Goto("sample_partial")
    /\ UNCHANGED <<inputs, disk, site_contrasts, site_meta, complete_sites,
                   partial_sites, n_complete, n_partial, selection, outputs>>

\* lines 148-152: one pass of the loop over partial_sites.items()
SamplePartial ==
    /\ pc = "sample_partial"
    /\ ci <= Len(DictKeys(cfg.keep_contrasts, {}))
    /\ LET c == DictKeys(cfg.keep_contrasts, {})[ci]
           available == Available(partial_sites[c], selected_sites)
           n_pick == NPick(n_per_contrast, available)
       IN IF n_pick > 0
          THEN \E got \in Sample(available, n_pick) :
                  /\ selected_sites' = selected_sites \cup got
                  /\ draws' = Append(draws, [pool |-> c, got |-> got])
                  /\ Log(random_sample(c))
          ELSE UNCHANGED <<selected_sites, draws, events>>
    /\ ci' = ci + 1
    /\ UNCHANGED <<inputs, disk, pc, error, raised_at, site_contrasts, site_meta,
                   complete_sites, partial_sites, n_complete, n_partial,
                   n_per_contrast, selection, outputs>>

\* lines 154-163 and 392-395: the loop is over; return (selected_sites, keep_proteins)
SelectReturn ==
    /\ pc = "sample_partial"
    /\ ci > Len(DictKeys(cfg.keep_contrasts, {}))
    /\ keep_sites' = selected_sites
    /\ phospho_proteins' = OwningProteins(site_meta, selected_sites)
    /\ Log(close(PhosphoXlsx))
    /\ Goto("select_proteins")
    /\ UNCHANGED <<inputs, disk, select_locals, draws, keep_proteins, outputs>>

SelectProteinsMutant ==
    /\ pc = "select_proteins"
    /\ ~Absent(ProteinXlsx)
    /\ ~IndexRaises(read_xlsx_sheet(protein_src, "diff_exp_analysis_wide").headers,
                    {"protein_Id"})
    /\ keep_proteins' = select_proteins(protein_src, phospho_proteins)
    /\ keep_sites' = {s \in keep_sites : site_meta[s].protein_Id \in keep_proteins'}
    /\ Log(load_workbook(ProteinXlsx) \o close(ProteinXlsx))
    /\ Goto("recreate_out_dir")
    /\ UNCHANGED <<inputs, disk, select_locals, draws, phospho_proteins, outputs>>

\* lines 399-401
SelectProteins ==
    /\ pc = "select_proteins"
    /\ IF Absent(ProteinXlsx)
       THEN Raise("FileNotFoundError") /\ UNCHANGED <<keep_proteins, events>>
       ELSE IF IndexRaises(read_xlsx_sheet(protein_src, "diff_exp_analysis_wide").headers,
                           {"protein_Id"})
       THEN Raise("ValueError") /\ UNCHANGED keep_proteins /\ Log(load_workbook(ProteinXlsx))
       ELSE /\ keep_proteins' = select_proteins(protein_src, phospho_proteins)
            /\ Log(load_workbook(ProteinXlsx) \o close(ProteinXlsx))
            /\ Goto("recreate_out_dir")
    /\ UNCHANGED <<inputs, disk, select_locals, draws, keep_sites, phospho_proteins,
                   outputs>>

\* lines 404-412: remove a prior output tree and make the four directories
RecreateOutDir ==
    /\ pc = "recreate_out_dir"
    /\ dirs' = MkDirs(IF cfg.out_dir \in dirs THEN RmTreeDirs(dirs, cfg.out_dir)
                      ELSE dirs,
                      cfg.out_dir)
    /\ files' = IF cfg.out_dir \in dirs THEN RmTreeFiles(files, cfg.out_dir) ELSE files
    /\ phospho_out' = NoWorkbook
    /\ protein_out' = NoWorkbook
    /\ phospho_pq_out' = <<>>
    /\ protein_pq_out' = <<>>
    /\ yaml_out' = {}
    /\ phospho_annot_out' = NoTable
    /\ protein_annot_out' = NoTable
    /\ Log((IF cfg.out_dir \in dirs THEN Event("rmtree", cfg.out_dir) ELSE <<>>)
           \o Event("mkdir", cfg.out_dir))
    /\ Goto("filter_phospho_xlsx")
    /\ UNCHANGED <<inputs, select_locals, draws, selection>>

\* lines 416-419
FilterPhosphoXlsx ==
    /\ pc = "filter_phospho_xlsx"
    /\ IF Absent(PhosphoXlsx)
       THEN Raise("FileNotFoundError") /\ UNCHANGED <<files, phospho_out, events>>
       ELSE IF filter_phospho_xlsx(phospho_src, keep_sites, cfg.keep_contrasts) = Raised
       THEN /\ Raise("ValueError")
            /\ Log(load_workbook(PhosphoXlsx))
            /\ UNCHANGED <<files, phospho_out>>
       ELSE /\ phospho_out' =
                   filter_phospho_xlsx(phospho_src, keep_sites, cfg.keep_contrasts)
            /\ files' = files \cup {<<cfg.out_dir, PhosphoXlsx>>}
            /\ Log(load_workbook(PhosphoXlsx) \o close(PhosphoXlsx) \o Event("write", PhosphoXlsx))
            /\ Goto("filter_protein_xlsx")
    /\ UNCHANGED <<inputs, dirs, select_locals, draws, selection, protein_out,
                   phospho_pq_out, protein_pq_out, yaml_out, phospho_annot_out,
                   protein_annot_out>>

\* lines 426-429
FilterProteinXlsx ==
    /\ pc = "filter_protein_xlsx"
    /\ IF Absent(ProteinXlsx)
       THEN Raise("FileNotFoundError") /\ UNCHANGED <<files, protein_out, events>>
       ELSE IF filter_protein_xlsx(protein_src, keep_proteins, cfg.keep_contrasts) = Raised
       THEN /\ Raise("ValueError")
            /\ Log(load_workbook(ProteinXlsx))
            /\ UNCHANGED <<files, protein_out>>
       ELSE /\ protein_out' =
                   filter_protein_xlsx(protein_src, keep_proteins, cfg.keep_contrasts)
            /\ files' = files \cup {<<cfg.out_dir, ProteinXlsx>>}
            /\ Log(load_workbook(ProteinXlsx) \o close(ProteinXlsx) \o Event("write", ProteinXlsx))
            /\ Goto("filter_parquet_phospho")
    /\ UNCHANGED <<inputs, dirs, select_locals, draws, selection, phospho_out,
                   phospho_pq_out, protein_pq_out, yaml_out, phospho_annot_out,
                   protein_annot_out>>

\* lines 436-441
FilterParquetPhospho ==
    /\ pc = "filter_parquet_phospho"
    /\ IF Absent(PhosphoParquet)
       THEN Raise("FileNotFoundError") /\ UNCHANGED <<files, phospho_pq_out, events>>
       ELSE IF parquet_raises(phospho_pq_src, "site")
       THEN Raise("KeyError") /\ UNCHANGED <<files, phospho_pq_out, events>>
       ELSE /\ phospho_pq_out' = filter_parquet(phospho_pq_src, "site", keep_sites)
            /\ files' = files \cup {<<cfg.out_dir, PhosphoParquet>>}
            /\ Log(Event("write", PhosphoParquet))
            /\ Goto("filter_parquet_protein")
    /\ UNCHANGED <<inputs, dirs, select_locals, draws, selection, phospho_out,
                   protein_out, protein_pq_out, yaml_out, phospho_annot_out,
                   protein_annot_out>>

\* lines 442-447
FilterParquetProtein ==
    /\ pc = "filter_parquet_protein"
    /\ IF Absent(ProteinParquet)
       THEN Raise("FileNotFoundError") /\ UNCHANGED <<files, protein_pq_out, events>>
       ELSE IF parquet_raises(protein_pq_src, "protein_Id")
       THEN Raise("KeyError") /\ UNCHANGED <<files, protein_pq_out, events>>
       ELSE /\ protein_pq_out' =
                   filter_parquet(protein_pq_src, "protein_Id", keep_proteins)
            /\ files' = files \cup {<<cfg.out_dir, ProteinParquet>>}
            /\ Log(Event("write", ProteinParquet))
            /\ Goto("copy_yaml")
    /\ UNCHANGED <<inputs, dirs, select_locals, draws, selection, phospho_out,
                   protein_out, phospho_pq_out, yaml_out, phospho_annot_out,
                   protein_annot_out>>

\* lines 451-458: the two lfqdata.yaml files are copied verbatim, one after
\* the other
CopyYaml ==
    /\ pc = "copy_yaml"
    /\ IF Absent(PhosphoYaml)
       THEN Raise("FileNotFoundError") /\ UNCHANGED <<files, yaml_out, events>>
       ELSE IF Absent(ProteinYaml)
       THEN /\ yaml_out' = {PhosphoYaml}
            /\ files' = files \cup {<<cfg.out_dir, PhosphoYaml>>}
            /\ Log(Event("copy", PhosphoYaml))
            /\ Raise("FileNotFoundError")
       ELSE /\ yaml_out' = {PhosphoYaml, ProteinYaml}
            /\ files' = files \cup {<<cfg.out_dir, PhosphoYaml>>,
                                    <<cfg.out_dir, ProteinYaml>>}
            /\ Log(Event("copy", PhosphoYaml) \o Event("copy", ProteinYaml))
            /\ Goto("filter_annotation_phospho")
    /\ UNCHANGED <<inputs, dirs, select_locals, draws, selection, phospho_out,
                   protein_out, phospho_pq_out, protein_pq_out, phospho_annot_out,
                   protein_annot_out>>

\* lines 463-467
FilterAnnotationPhospho ==
    /\ pc = "filter_annotation_phospho"
    /\ IF Absent(PhosphoAnnot)
       THEN Raise("FileNotFoundError") /\ UNCHANGED <<files, phospho_annot_out, events>>
       ELSE /\ phospho_annot_out' =
                   filter_annotation_tsv(phospho_annot_src, cfg.keep_contrasts)
            /\ files' = files \cup {<<cfg.out_dir, PhosphoAnnot>>}
            /\ Log(Event("write", PhosphoAnnot))
            /\ IF annotation_raises(phospho_annot_src, cfg.keep_contrasts)
               THEN Raise("ValueError")
               ELSE Goto("filter_annotation_protein")
    /\ UNCHANGED <<inputs, dirs, select_locals, draws, selection, phospho_out,
                   protein_out, phospho_pq_out, protein_pq_out, yaml_out,
                   protein_annot_out>>

\* lines 468-484
FilterAnnotationProtein ==
    /\ pc = "filter_annotation_protein"
    /\ IF Absent(ProteinAnnot)
       THEN Raise("FileNotFoundError") /\ UNCHANGED <<files, protein_annot_out, events>>
       ELSE /\ protein_annot_out' =
                   filter_annotation_tsv(protein_annot_src, cfg.keep_contrasts)
            /\ files' = files \cup {<<cfg.out_dir, ProteinAnnot>>}
            /\ Log(Event("write", ProteinAnnot))
            /\ IF annotation_raises(protein_annot_src, cfg.keep_contrasts)
               THEN Raise("ValueError")
               ELSE Goto("done")
    /\ UNCHANGED <<inputs, dirs, select_locals, draws, selection, phospho_out,
                   protein_out, phospho_pq_out, protein_pq_out, yaml_out,
                   phospho_annot_out>>

Next ==
    \/ Start
    \/ SelectBuild
    \/ SampleComplete
    \/ SamplePartial
    \/ SelectReturn
    \/ SelectProteins
    \/ RecreateOutDir
    \/ FilterPhosphoXlsx
    \/ FilterProteinXlsx
    \/ FilterParquetPhospho
    \/ FilterParquetProtein
    \/ CopyYaml
    \/ FilterAnnotationPhospho
    \/ FilterAnnotationProtein

Spec == Init /\ [][Next]_vars

(***************************************************************************)
(* filter_annotation_tsv, lines 327-354, called on its own: any table, any *)
(* list of kept contrasts                                                  *)
(***************************************************************************)
InitAnnotation ==
    /\ pc = "filter_annotation_tsv"
    /\ phospho_annot_src \in AnnotationTables
    /\ \E kc \in KeepContrastLists :
          cfg = [keep_contrasts |-> kc, n_phospho |-> 0, out_dir |-> "out"]
    /\ dirs = {SrcDir, "out"}
    /\ files = {<<SrcDir, PhosphoAnnot>>}
    /\ protein_annot_src = NoTable
    /\ phospho_src = NoWorkbook
    /\ protein_src = NoWorkbook
    /\ phospho_pq_src = <<>>
    /\ protein_pq_src = <<>>
    /\ Blank

CallFilterAnnotationTsv ==
    /\ pc = "filter_annotation_tsv"
    /\ phospho_annot_out' = filter_annotation_tsv(phospho_annot_src, cfg.keep_contrasts)
    /\ files' = files \cup {<<cfg.out_dir, PhosphoAnnot>>}
    /\ Log(Event("write", PhosphoAnnot))
    /\ IF annotation_raises(phospho_annot_src, cfg.keep_contrasts)
       THEN Raise("ValueError")
       ELSE Goto("returned")
    /\ UNCHANGED <<inputs, dirs, select_locals, draws, selection, phospho_out,
                   protein_out, phospho_pq_out, protein_pq_out, yaml_out,
                   protein_annot_out>>

NextAnnotation == CallFilterAnnotationTsv

SpecAnnotation == InitAnnotation /\ [][NextAnnotation]_vars

(***************************************************************************)
(* Notions of the specification, stated on the source files alone          *)
(***************************************************************************)
LongRows == phospho_src.sheets["diff_exp_analysis"].rows

WideRows == phospho_src.sheets["diff_exp_analysis_wide"].rows

ProteinWideRows == protein_src.sheets["diff_exp_analysis_wide"].rows

KeptSet == Range(cfg.keep_contrasts)

SiteKeys ==
    {LongRows[i].site : i \in DOMAIN LongRows} \cup {WideRows[i].site : i \in DOMAIN WideRows}

\* not a decoy, not a contaminant, a sequence window of at least 7 characters
RowIsClean(r) ==
    /\ r.REV \notin {PyTrue, "True", "TRUE"}
    /\ r.CON \notin {PyTrue, "True", "TRUE"}
    /\ r.SequenceWindow # None
    /\ Len(r.SequenceWindow) >= 7

HasCleanWideRow(s) ==
    \E i \in DOMAIN WideRows : WideRows[i].site = s /\ RowIsClean(WideRows[i])

\* the kept contrasts for which the long sheet holds a non-null FDR of the site
CoverageOf(s) ==
    {c \in KeptSet :
        \E i \in DOMAIN LongRows :
            /\ LongRows[i].site = s
            /\ LongRows[i].contrast = c
            /\ LongRows[i].FDR # None}

\* the site has a long-sheet row in a kept contrast, so the selector records it
Accumulated(s) ==
    \E i \in DOMAIN LongRows : LongRows[i].site = s /\ LongRows[i].contrast \in KeptSet

CompleteCandidates ==
    {s \in SiteKeys : HasCleanWideRow(s) /\ Accumulated(s) /\ CoverageOf(s) = KeptSet}

PartialCandidates(c) ==
    {s \in SiteKeys :
        HasCleanWideRow(s) /\ Accumulated(s) /\ CoverageOf(s) # KeptSet /\ c \in CoverageOf(s)}

\* the position the run has got to: the step that raised, for a failed run
At == IF pc = "failed" THEN raised_at ELSE pc

\* select_phosphosites has built its pools
Classified == At \notin {"start", "select_phosphosites"}

\* select_phosphosites has returned its keep-set
Returned ==
    At \notin {"start", "select_phosphosites", "sample_complete", "sample_partial"}

\* select_proteins has returned
ProteinsSelected == Returned /\ At # "select_proteins"

\* the phospho workbook has been written
PhosphoWritten ==
    ProteinsSelected /\ At \notin {"recreate_out_dir", "filter_phospho_xlsx"}

\* the protein workbook has been written
ProteinWritten == PhosphoWritten /\ At # "filter_protein_xlsx"

PartialSelected == keep_sites \ CompleteCandidates

Quota == cfg.n_phospho \div 5

KeysOf(rows, key) == {rows[i][key] : i \in DOMAIN rows}

(***************************************************************************)
(* C1: every site of the keep-set, and every site of any draw, has a wide- *)
(* sheet row that is not a decoy, not a contaminant and has a sequence     *)
(* window of at least 7 characters; no draw, complete or partial, takes a  *)
(* site that is absent from the validity map.                              *)
(***************************************************************************)
C1_SelectedSitesValid ==
    /\ \A s \in selected_sites \cup keep_sites : HasCleanWideRow(s)
    /\ \A i \in DOMAIN draws :
          \A s \in draws[i].got : s \in DOMAIN site_meta /\ HasCleanWideRow(s)

C1_Witness ==
    /\ Returned
    /\ Len(draws) >= 2
    /\ keep_sites # {}
    /\ \E s \in SiteKeys : Accumulated(s) /\ ~HasCleanWideRow(s)

(***************************************************************************)
(* C2: every row of the written phospho diff_exp_analysis_wide sheet is    *)
(* not a decoy, not a contaminant and has a sequence window of at least 7  *)
(* characters.                                                             *)
(***************************************************************************)
C2_OutputWideRowsClean ==
    PhosphoWritten =>
        \A i \in DOMAIN phospho_out.sheets["diff_exp_analysis_wide"].rows :
            RowIsClean(phospho_out.sheets["diff_exp_analysis_wide"].rows[i])

(***************************************************************************)
(* C3: a valid site the selector recorded is in complete_sites exactly     *)
(* when its coverage set is the kept-contrasts set; otherwise it is in     *)
(* partial_sites[c] exactly for the contrasts c of its coverage set.  A    *)
(* site of the complete draw has a non-null FDR for every kept contrast,   *)
(* a site of a partial draw for at least one but not for all.              *)
(***************************************************************************)
C3_CoverageClassification ==
    Classified =>
        /\ Range(complete_sites) = CompleteCandidates
        /\ DOMAIN partial_sites = KeptSet
        /\ \A c \in KeptSet : Range(partial_sites[c]) = PartialCandidates(c)
        /\ \A i \in DOMAIN draws :
              \A s \in draws[i].got :
                  IF draws[i].pool = "complete"
                  THEN CoverageOf(s) = KeptSet
                  ELSE /\ draws[i].pool \in CoverageOf(s)
                       /\ CoverageOf(s) # KeptSet

C3_Witness ==
    /\ Returned
    /\ cfg.keep_contrasts = <<"X", "Y">>
    /\ complete_sites # <<>>
    /\ \E s \in Range(partial_sites["X"]) : s \notin Range(partial_sites["Y"])
    /\ \E i \in DOMAIN draws : draws[i].pool = "X" /\ draws[i].got # {}
    /\ draws[1].got # {}

(***************************************************************************)
(* C4: the keep-set holds exactly min(N, number of valid complete          *)
(* candidates) complete sites, and they are distinct members of the        *)
(* complete pool.                                                          *)
(***************************************************************************)
C4_CompleteCount ==
    Returned =>
        /\ Cardinality(keep_sites \cap CompleteCandidates)
              = Min(cfg.n_phospho, Cardinality(CompleteCandidates))
        /\ draws[1].got = keep_sites \cap CompleteCandidates
        /\ Len(complete_sites) = Cardinality(CompleteCandidates)

C4_Witness ==
    /\ Returned
    /\ cfg.n_phospho >= 2
    /\ Cardinality(CompleteCandidates) > cfg.n_phospho
    /\ Cardinality(keep_sites \cap CompleteCandidates) = cfg.n_phospho

(***************************************************************************)
(* C5 as stated: the keep-set never holds more than N // 5 partial sites.  *)
(***************************************************************************)
C5_PartialAtMostFifth == Returned => Cardinality(PartialSelected) <= Quota

(***************************************************************************)
(* C5, amended: the keep-set holds at most max(N // 5, |C|) partial sites; *)
(* one contrast adds at most max(1, (N // 5) // |C|) sites, so a remainder *)
(* of an uneven split is handed to no contrast.                            *)
(***************************************************************************)
C5_PartialQuota ==
    Returned =>
        /\ Cardinality(PartialSelected) <= Max(Quota, Len(cfg.keep_contrasts))
        /\ \A i \in DOMAIN draws :
              draws[i].pool # "complete" =>
                  Cardinality(draws[i].got) <= Max(1, Quota \div Len(cfg.keep_contrasts))

C5_Witness ==
    /\ Returned
    /\ Quota = 3
    /\ Cardinality(PartialSelected) = 2
    /\ \E c \in KeptSet : Len(partial_sites[c]) >= 3

(***************************************************************************)
(* C6 as stated: the keep-set never holds more than max(1, N // 5)         *)
(* partial sites.                                                          *)
(***************************************************************************)
C6_PartialAtMostMaxOneFifth == Returned => Cardinality(PartialSelected) <= Max(1, Quota)

(***************************************************************************)
(* C6, amended: the keep-set holds at most |C| * max(1, (N // 5) // |C|)   *)
(* partial sites.                                                          *)
(***************************************************************************)
C6_PartialBound ==
    Returned =>
        Cardinality(PartialSelected)
            <= Len(cfg.keep_contrasts) * Max(1, Quota \div Len(cfg.keep_contrasts))

C6_Witness ==
    /\ Returned
    /\ Quota = 0
    /\ Cardinality(PartialSelected) = 2

(***************************************************************************)
(* C7: the protein keep-set is exactly the owning-protein ids of the       *)
(* selected sites that occur as protein_Id in the protein workbook's wide  *)
(* sheet: a subset of the protein dataset's ids; an owning id without a    *)
(* protein row is left out and the run goes on: select_proteins raises     *)
(* only for an absent workbook or a wide sheet without protein_Id.         *)
(***************************************************************************)
C7_ProteinIntersection ==
    /\ ProteinsSelected =>
          /\ \A p \in keep_proteins :
                /\ p \in KeysOf(ProteinWideRows, "protein_Id")
                /\ \E s \in keep_sites : site_meta[s].protein_Id = p
          /\ \A s \in keep_sites :
                site_meta[s].protein_Id \in KeysOf(ProteinWideRows, "protein_Id")
                    => site_meta[s].protein_Id \in keep_proteins
    /\ raised_at = "select_proteins" =>
          \/ <<SrcDir, ProteinXlsx>> \notin files
          \/ "protein_Id" \notin Range(protein_src.sheets["diff_exp_analysis_wide"].headers)

C7_Witness ==
    /\ pc = "recreate_out_dir"
    /\ keep_proteins # {}
    /\ \E s \in keep_sites : site_meta[s].protein_Id \notin keep_proteins
    /\ KeysOf(ProteinWideRows, "protein_Id") \ keep_proteins # {}

(***************************************************************************)
(* C8: in both written workbooks every sheet with a filtering role holds   *)
(* exactly the source rows that satisfy the role's predicate, in source    *)
(* order, under the source header: key in the keep-set for the entity-     *)
(* keyed sheets, key in the keep-set and contrast kept for the long sheet, *)
(* contrast_name kept for the contrasts sheet.                             *)
(***************************************************************************)
ExactlyTheRows(out, src, P(_)) ==
    LET idx == {i \in DOMAIN src : P(src[i])}
    IN /\ Len(out) = Cardinality(idx)
       /\ \A i \in idx : out[Cardinality({j \in idx : j <= i})] = src[i]

SheetsFiltered(src, out, key, keep) ==
    \A n \in Range(src.sheetnames) :
        LET InKeep(r) == r[key] \in keep
            InKeepAndKept(r) == r[key] \in keep /\ r.contrast \in KeptSet
            NameKept(r) == r.contrast_name \in KeptSet
            o == out.sheets[n]
            i == src.sheets[n]
        IN /\ n = "contrasts" =>
                o.headers = i.headers /\ ExactlyTheRows(o.rows, i.rows, NameKept)
           /\ n = "diff_exp_analysis" =>
                o.headers = i.headers /\ ExactlyTheRows(o.rows, i.rows, InKeepAndKept)
           /\ n \in {"diff_exp_analysis_wide", "normalized_abundances"} =>
                o.headers = i.headers /\ ExactlyTheRows(o.rows, i.rows, InKeep)

C8_RoleFiltering ==
    /\ PhosphoWritten => SheetsFiltered(phospho_src, phospho_out, "site", keep_sites)
    /\ ProteinWritten =>
          SheetsFiltered(protein_src, protein_out, "protein_Id", keep_proteins)

C8_Witness ==
    /\ ProteinWritten
    /\ Len(phospho_out.sheets["diff_exp_analysis"].rows) > 0
    /\ \E i \in DOMAIN LongRows :
          LongRows[i].site \in keep_sites /\ LongRows[i].contrast \notin KeptSet
    /\ \E i \in DOMAIN LongRows :
          LongRows[i].site \notin keep_sites /\ LongRows[i].contrast \in KeptSet
    /\ Len(phospho_out.sheets["contrasts"].rows) = 1
    /\ Len(protein_out.sheets["diff_exp_analysis_wide"].rows) = 1
    /\ Len(ProteinWideRows) = 2

(***************************************************************************)
(* C9 as stated: after a run the keys of the filtered wide sheet are the   *)
(* keys of the filtered parquet table, for both datasets.                  *)
(***************************************************************************)
C9_KeySetsEqual ==
    pc = "done" =>
        /\ KeysOf(phospho_out.sheets["diff_exp_analysis_wide"].rows, "site")
              = KeysOf(phospho_pq_out, "site")
        /\ KeysOf(protein_out.sheets["diff_exp_analysis_wide"].rows, "protein_Id")
              = KeysOf(protein_pq_out, "protein_Id")

(***************************************************************************)
(* C9, amended: after a run a key that both the source wide sheet and the  *)
(* source parquet table hold is in the filtered wide sheet exactly when it *)
(* is in the filtered parquet table; the two filtered key sets are equal   *)
(* whenever the two sources hold the same keys.                            *)
(***************************************************************************)
KeysAgree(wide_out, pq_out, wide_src, pq_src, key) ==
    /\ KeysOf(wide_out, key) \cap KeysOf(pq_src, key)
          = KeysOf(pq_out, key) \cap KeysOf(wide_src, key)
    /\ KeysOf(wide_src, key) = KeysOf(pq_src, key)
          => KeysOf(wide_out, key) = KeysOf(pq_out, key)

C9_KeySetsAgree ==
    pc = "done" =>
        /\ KeysAgree(phospho_out.sheets["diff_exp_analysis_wide"].rows, phospho_pq_out,
                     WideRows, phospho_pq_src, "site")
        /\ KeysAgree(protein_out.sheets["diff_exp_analysis_wide"].rows, protein_pq_out,
                     ProteinWideRows, protein_pq_src, "protein_Id")

C9_Witness ==
    /\ pc = "done"
    /\ \E s \in keep_sites : s \notin KeysOf(phospho_pq_src, "site")
    /\ phospho_pq_out # <<>>
    /\ Len(phospho_pq_out) < Len(phospho_pq_src)
    /\ KeysOf(ProteinWideRows, "protein_Id") = KeysOf(protein_pq_src, "protein_Id")
    /\ protein_pq_out # <<>>

(***************************************************************************)
(* C10: in each written workbook every entity key of the long sheet and of *)
(* every other entity-keyed sheet also occurs in the diff_exp_analysis_wide*)
(* sheet of that workbook.                                                 *)
(***************************************************************************)
NoOrphans(out, key) ==
    \A n \in DOMAIN out.sheets :
        n \in EntityKeyedSheets \cup {"diff_exp_analysis"} =>
            KeysOf(out.sheets[n].rows, key)
                \subseteq KeysOf(out.sheets["diff_exp_analysis_wide"].rows, key)

C10_NoOrphans ==
    /\ PhosphoWritten => NoOrphans(phospho_out, "site")
    /\ ProteinWritten => NoOrphans(protein_out, "protein_Id")

C10_Witness ==
    /\ ProteinWritten
    /\ phospho_out.sheets["diff_exp_analysis"].rows # <<>>
    /\ \E i \in DOMAIN LongRows : LongRows[i].site \notin KeysOf(WideRows, "site")
    /\ protein_out.sheets["diff_exp_analysis"].rows # <<>>
    /\ \E s \in keep_sites :
          site_meta[s].protein_Id \notin KeysOf(ProteinWideRows, "protein_Id")

(***************************************************************************)
(* C11: the summary sheet of a written workbook is one row computed from   *)
(* the rows of that workbook's filtered diff_exp_analysis_wide sheet: the  *)
(* total is their number, the contaminant and the decoy percentage are     *)
(* 100 * count / total to two decimals, the net count is the total minus   *)
(* the decoys minus the contaminants.  The source's summary decides        *)
(* nothing of it.                                                          *)
(***************************************************************************)
\* p hundredths of a percent is 100 * count / total to the nearest hundredth
NearestHundredth(p, count, total) ==
    LET d == 10000 * count - p * total
    IN 2 * d <= total /\ -2 * d <= total

\* the rows of a sheet whose cell in column col is a spelling of true
FlaggedRows(wide, col) ==
    {i \in DOMAIN wide : col \in DOMAIN wide[i] /\ wide[i][col] \in {PyTrue, "True", "TRUE"}}

SummaryRecomputed(out) ==
    LET wide == out.sheets["diff_exp_analysis_wide"].rows
        total == Len(wide)
        decoys == Cardinality(FlaggedRows(wide, "REV"))
        contaminants == Cardinality(FlaggedRows(wide, "CON"))
        summary == out.sheets["summary"]
    IN /\ summary.headers = <<"totalNrOfProteins", "percentOfContaminants",
                              "percentOfFalsePositives", "NrOfProteinsNoDecoys">>
       /\ Len(summary.rows) = 1
       /\ summary.rows[1].totalNrOfProteins = total
       /\ summary.rows[1].NrOfProteinsNoDecoys = total - decoys - contaminants
       /\ total > 0 =>
             /\ NearestHundredth(summary.rows[1].percentOfContaminants, contaminants, total)
             /\ NearestHundredth(summary.rows[1].percentOfFalsePositives, decoys, total)

C11_SummaryRecomputed ==
    /\ PhosphoWritten => SummaryRecomputed(phospho_out)
    /\ ProteinWritten => SummaryRecomputed(protein_out)

C11_Witness ==
    /\ ProteinWritten
    /\ InList("summary", phospho_src.sheetnames)
    /\ phospho_src.sheets["summary"].rows[1].totalNrOfProteins = 900
    /\ Len(phospho_out.sheets["diff_exp_analysis_wide"].rows) = 3
    /\ phospho_out.sheets["summary"].rows[1].percentOfFalsePositives = 3333
    /\ phospho_out.sheets["summary"].rows[1].NrOfProteinsNoDecoys = 2
    /\ protein_out.sheets["summary"].rows[1].totalNrOfProteins = 1

(***************************************************************************)
(* C12: a written workbook has exactly the sheet names of its source       *)
(* workbook, in the same order: no sheet is dropped and none is added.     *)
(***************************************************************************)
SameSheetNames(src, out) ==
    /\ out.sheetnames = src.sheetnames
    /\ DOMAIN out.sheets = Range(src.sheetnames)

C12_SameSheetNames ==
    /\ PhosphoWritten => SameSheetNames(phospho_src, phospho_out)
    /\ ProteinWritten => SameSheetNames(protein_src, protein_out)

(***************************************************************************)
(* C13: a sheet named annotation or formula, and every sheet whose name    *)
(* has no filtering role, is in the written workbook with the header and   *)
(* the rows of the source, whatever the keep-set and the kept contrasts.   *)
(***************************************************************************)
KnownRoles ==
    {"annotation", "formula", "summary", "contrasts", "diff_exp_analysis",
     "diff_exp_analysis_wide", "normalized_abundances", "raw_abundances_matrix",
     "normalized_abundances_matrix", "missing_information", "stats_normalized",
     "stats_normalized_wide", "stats_raw", "stats_raw_wide"}

CopiedUnchanged(src, out) ==
    \A n \in Range(src.sheetnames) :
        n \in {"annotation", "formula"} \/ n \notin KnownRoles =>
            /\ InList(n, out.sheetnames)
            /\ out.sheets[n].headers = src.sheets[n].headers
            /\ out.sheets[n].rows = src.sheets[n].rows

C13_PassThroughUnchanged ==
    /\ PhosphoWritten => CopiedUnchanged(phospho_src, phospho_out)
    /\ ProteinWritten => CopiedUnchanged(protein_src, protein_out)

C13_Witness ==
    /\ ProteinWritten
    /\ keep_proteins = {"p1"}
    /\ Len(protein_out.sheets["qc_metrics"].rows) = 3
    /\ protein_out.sheets["formula"].rows[1].protein_Id = "p2"
    /\ Len(phospho_out.sheets["normalized_abundances"].rows) < Len(SiteList)
    /\ phospho_out.sheets["annotation"].rows # <<>>
    /\ phospho_out.sheets["notes"].rows # <<>>

(***************************************************************************)
(* C14: a written parquet table holds exactly the source rows whose value  *)
(* in the named column is a member of the keep-set, in source order, each  *)
(* row with the columns and values of the source; no other row appears.    *)
(***************************************************************************)
PhosphoParquetWritten == ProteinWritten /\ At # "filter_parquet_phospho"

ProteinParquetWritten == PhosphoParquetWritten /\ At # "filter_parquet_protein"

C14_ParquetFiltered ==
    LET SiteKept(r) == r.site \in keep_sites
        ProteinKept(r) == r.protein_Id \in keep_proteins
    IN /\ PhosphoParquetWritten =>
             /\ ExactlyTheRows(phospho_pq_out, phospho_pq_src, SiteKept)
             /\ \A i \in DOMAIN phospho_pq_out : phospho_pq_out[i].site \in keep_sites
       /\ ProteinParquetWritten =>
             /\ ExactlyTheRows(protein_pq_out, protein_pq_src, ProteinKept)
             /\ \A i \in DOMAIN protein_pq_out :
                   protein_pq_out[i].protein_Id \in keep_proteins

C14_Witness ==
    /\ ProteinParquetWritten
    /\ Len(phospho_pq_out) = 4
    /\ Len(phospho_pq_src) = 6
    /\ phospho_pq_out[1].site # phospho_pq_src[1].site
    /\ Len(protein_pq_out) = 2
    /\ Len(protein_pq_src) > 2

(***************************************************************************)
(* C15 as stated: for a table with a ContrastName and a Contrast column    *)
(* the output has the header and as many rows as the input, in the same    *)
(* order; a row has ContrastName and Contrast set to NA if and only if its *)
(* ContrastName is non-empty, is not NA and is not a kept contrast; every  *)
(* other cell is unchanged.                                                *)
(***************************************************************************)
AnnotationReturned == pc = "returned"

RowsNulledWhen(src, out, ToNull(_)) ==
    /\ out.fieldnames = src.fieldnames
    /\ Len(out.rows) = Len(src.rows)
    /\ \A i \in DOMAIN src.rows :
          /\ DOMAIN out.rows[i] = DOMAIN src.rows[i]
          /\ \A f \in DOMAIN src.rows[i] :
                out.rows[i][f] =
                    IF f \in {"ContrastName", "Contrast"} /\ ToNull(src.rows[i])
                    THEN "NA" ELSE src.rows[i][f]

Trimmed ==
    (" X " :> "X") @@ (" Z " :> "Z") @@ (" NA " :> "NA") @@ (" " :> "")
        @@ [cell \in {"X", "Y", "Z", "NA", ""} |-> cell]

C16_GroupControlIdentical ==
    AnnotationReturned /\ ~InList("ContrastName", phospho_annot_src.fieldnames)
        => phospho_annot_out = phospho_annot_src

(***************************************************************************)
(* C18: when the source directory or one of the eight input files is       *)
(* absent, no step of the run removes, creates or writes anything in the   *)
(* output directory.                                                       *)
(***************************************************************************)
SourceMissing ==
    \/ SrcDir \notin dirs
    \/ \E f \in RequiredFiles : <<SrcDir, f>> \notin files

\* the directories and files at or below the output directory
OutTree ==
    <<{d \in dirs : Under(d, cfg.out_dir)}, {f \in files : Under(f[1], cfg.out_dir)}>>

C18_NoOutputTouched ==
    [][SourceMissing => OutTree' = OutTree /\ UNCHANGED outputs]_vars

(***************************************************************************)
(* C19: no step of a run removes, creates or rewrites a directory or a     *)
(* file at or below the source directory, whatever the configuration.      *)
(***************************************************************************)
SourceTree ==
    <<{d \in dirs : Under(d, SrcDir)}, {f \in files : Under(f[1], SrcDir)}>>

C19_SourceNeverMutated == [][SourceTree' = SourceTree]_vars

(***************************************************************************)
(* C20: when a sheet with a filtering role lacks its key column (the       *)
(* entity key of an entity-keyed or the long sheet, contrast of the long   *)
(* sheet, contrast_name of the contrasts sheet), the run does not get past *)
(* the filter of that workbook, it ends with a ValueError there or         *)
(* earlier, and no workbook is written for that dataset.                   *)
(***************************************************************************)
LacksKey(wb, key) ==
    \E n \in Range(wb.sheetnames) :
        LET columns == Range(wb.sheets[n].headers)
        IN \/ n = "contrasts" /\ "contrast_name" \notin columns
           \/ n = "diff_exp_analysis" /\ {key, "contrast"} \ columns # {}
           \/ n \in {"diff_exp_analysis_wide", "normalized_abundances",
                      "raw_abundances_matrix", "normalized_abundances_matrix",
                      "missing_information", "stats_normalized",
                      "stats_normalized_wide", "stats_raw", "stats_raw_wide"}
                 /\ key \notin columns

UpToPhosphoFilter ==
    {"start", "select_phosphosites", "sample_complete", "sample_partial",
     "select_proteins", "recreate_out_dir", "filter_phospho_xlsx"}

C20_MissingKeyFatal ==
    /\ LacksKey(phospho_src, "site") =>
          /\ At \in UpToPhosphoFilter
          /\ phospho_out = NoWorkbook
          /\ <<cfg.out_dir, PhosphoXlsx>> \notin files
          /\ At = "filter_phospho_xlsx" /\ pc = "failed" => error = "ValueError"
    /\ LacksKey(protein_src, "protein_Id") =>
          /\ At \in UpToPhosphoFilter \cup {"filter_protein_xlsx"}
          /\ protein_out = NoWorkbook
          /\ <<cfg.out_dir, ProteinXlsx>> \notin files
          /\ At = "filter_protein_xlsx" /\ pc = "failed" => error = "ValueError"

C20_Witness ==
    /\ pc = "failed"
    /\ raised_at = "filter_protein_xlsx"
    /\ error = "ValueError"
    /\ "protein_Id" \notin Range(protein_src.sheets["normalized_abundances"].headers)
    /\ phospho_out # NoWorkbook
    /\ protein_out = NoWorkbook
    /\ "out" \in dirs

(***************************************************************************)
(* C21: a column that is read by name and is absent from what is read      *)
(* aborts the run at the step that reads it: the run gets no further than  *)
(* that step, and when it stops there it stops with that step's lookup     *)
(* error.  As stated, this includes the REV and CON columns of the wide    *)
(* sheet in the summary recomputation.                                     *)
(***************************************************************************)
Lacks(wb, sheet_name, cols) ==
    /\ InList(sheet_name, wb.sheetnames)
    /\ cols \ Range(wb.sheets[sheet_name].headers) # {}

UpToParquetPhospho ==
    UpToPhosphoFilter \cup {"filter_protein_xlsx", "filter_parquet_phospho"}

\* the columns read while selecting and filtering
NamedColumnsFatal ==
    /\ (\/ Lacks(phospho_src, "diff_exp_analysis", {"site", "contrast", "FDR"})
        \/ Lacks(phospho_src, "diff_exp_analysis_wide",
                 {"site", "REV", "CON", "SequenceWindow", "modAA", "protein_Id"})) =>
          /\ At \in {"start", "select_phosphosites"}
          /\ pc = "failed" /\ At = "select_phosphosites" => error = "ValueError"
    /\ Lacks(protein_src, "diff_exp_analysis_wide", {"protein_Id"}) =>
          /\ ~ProteinsSelected
          /\ pc = "failed" /\ At = "select_proteins" => error = "ValueError"
    /\ Lacks(phospho_src, "contrasts", {"contrast_name"}) =>
          /\ ~PhosphoWritten
          /\ pc = "failed" /\ At = "filter_phospho_xlsx" => error = "ValueError"
    /\ Lacks(protein_src, "contrasts", {"contrast_name"}) =>
          /\ ~ProteinWritten
          /\ pc = "failed" /\ At = "filter_protein_xlsx" => error = "ValueError"
    /\ parquet_raises(phospho_pq_src, "site") =>
          /\ At \in UpToParquetPhospho
          /\ phospho_pq_out = <<>>
          /\ pc = "failed" /\ At = "filter_parquet_phospho" => error = "KeyError"
    /\ parquet_raises(protein_pq_src, "protein_Id") =>
          /\ At \in UpToParquetPhospho \cup {"filter_parquet_protein"}
          /\ protein_pq_out = <<>>
          /\ pc = "failed" /\ At = "filter_parquet_protein" => error = "KeyError"

\* the flag columns read while recomputing the summary
SummaryColumnsFatal ==
    /\ Lacks(phospho_src, "diff_exp_analysis_wide", {"REV", "CON"}) => ~PhosphoWritten
    /\ Lacks(protein_src, "diff_exp_analysis_wide", {"REV", "CON"}) => ~ProteinWritten

C21_SchemaMismatchFatal == NamedColumnsFatal /\ SummaryColumnsFatal

(***************************************************************************)
(* C21, amended: the columns read while selecting and filtering are fatal  *)
(* when absent, as above; the summary recomputation is the exception: when *)
(* the filtered wide sheet has no REV (CON) column, the run continues and  *)
(* the summary is written with zero decoys (contaminants), that is a       *)
(* percentage of 0 and a net count from which nothing is subtracted for    *)
(* that column.                                                            *)
(***************************************************************************)
SummaryDefaultsToZero(src, out) ==
    LET summary == out.sheets["summary"].rows[1]
        wide == out.sheets["diff_exp_analysis_wide"].rows
    IN /\ Lacks(src, "diff_exp_analysis_wide", {"REV"}) =>
             /\ summary.percentOfFalsePositives = 0
             /\ summary.NrOfProteinsNoDecoys =
                    Len(wide) - Cardinality(FlaggedRows(wide, "CON"))
       /\ Lacks(src, "diff_exp_analysis_wide", {"CON"}) =>
             /\ summary.percentOfContaminants = 0
             /\ summary.NrOfProteinsNoDecoys =
                    Len(wide) - Cardinality(FlaggedRows(wide, "REV"))

C21_FatalExceptSummaryFlags ==
    /\ NamedColumnsFatal
    /\ PhosphoWritten => SummaryDefaultsToZero(phospho_src, phospho_out)
    /\ ProteinWritten => SummaryDefaultsToZero(protein_src, protein_out)

C21_Witness ==
    /\ pc = "failed"
    /\ raised_at = "filter_parquet_phospho"
    /\ error = "KeyError"
    /\ Lacks(protein_src, "diff_exp_analysis_wide", {"REV"})
    /\ Len(protein_out.sheets["diff_exp_analysis_wide"].rows) > 0
    /\ protein_out.sheets["summary"].rows[1].percentOfFalsePositives = 0
    /\ <<cfg.out_dir, ProteinXlsx>> \in files

(***************************************************************************)
(* C22: empty results are not fatal.  When no site is a valid complete     *)
(* candidate, select_phosphosites does not raise; when no owning protein   *)
(* is in the protein dataset, select_proteins does not raise; with an      *)
(* empty keep-set the filters do not raise, each filtered sheet keeps its  *)
(* header row and has no data row, the columnar output has no row, and     *)
(* the summary holds total 0, both percentages 0 and net count 0.          *)
(***************************************************************************)
SelectSteps == {"select_phosphosites", "sample_complete", "sample_partial"}

WellFormed(wb, key) ==
    /\ ~LacksKey(wb, key)
    /\ \A n \in {"diff_exp_analysis", "diff_exp_analysis_wide"} : InList(n, wb.sheetnames)

EmptySelectionRaises ==
    /\ pc = "failed"
    /\ ~select_raises(phospho_src)
    /\ \/ raised_at \in SelectSteps /\ CompleteCandidates = {}
       \/ /\ raised_at = "select_proteins"
          /\ ~Absent(ProteinXlsx)
          /\ ~Lacks(protein_src, "diff_exp_analysis_wide", {"protein_Id"})
          /\ keep_proteins = {}
       \/ raised_at = "filter_phospho_xlsx" /\ keep_sites = {} /\ WellFormed(phospho_src, "site")
       \/ /\ raised_at = "filter_protein_xlsx"
          /\ keep_proteins = {}
          /\ WellFormed(protein_src, "protein_Id")
       \/ /\ raised_at = "filter_parquet_phospho"
          /\ keep_sites = {}
          /\ ~Absent(PhosphoParquet)
          /\ ~parquet_raises(phospho_pq_src, "site")
       \/ /\ raised_at = "filter_parquet_protein"
          /\ keep_proteins = {}
          /\ ~Absent(ProteinParquet)
          /\ ~parquet_raises(protein_pq_src, "protein_Id")

\* every sheet filtered by the entity key has its header row and no data row
Emptied(src, out) ==
    /\ \A n \in Range(src.sheetnames) \cap (EntityKeyedSheets \cup {"diff_exp_analysis"}) :
          /\ out.sheets[n].headers = src.sheets[n].headers
          /\ out.sheets[n].rows = <<>>
    /\ out.sheets["summary"].rows =
          <<[totalNrOfProteins |-> 0, percentOfContaminants |-> 0,
             percentOfFalsePositives |-> 0, NrOfProteinsNoDecoys |-> 0]>>

EmptyOutputs ==
    /\ PhosphoWritten /\ keep_sites = {} => Emptied(phospho_src, phospho_out)
    /\ ProteinWritten /\ keep_proteins = {} => Emptied(protein_src, protein_out)
    /\ PhosphoParquetWritten /\ keep_sites = {} => phospho_pq_out = <<>>
    /\ ProteinParquetWritten /\ keep_proteins = {} => protein_pq_out = <<>>

C22_EmptyNotFatal == ~EmptySelectionRaises /\ EmptyOutputs

(***************************************************************************)
(* C23: summary idempotence.  Applying _update_summary once more to a      *)
(* filtered sheet collection, whose summary it has already recomputed,     *)
(* gives the same four counters (and the same sheet order), and it changes *)
(* no sheet other than summary.                                            *)
(***************************************************************************)
SummaryIdempotent(out) ==
    LET again == update_summary(out)
    IN /\ again.sheets["summary"] = out.sheets["summary"]
       /\ again.sheetnames = out.sheetnames
       /\ DOMAIN again.sheets = DOMAIN out.sheets
       /\ \A n \in DOMAIN out.sheets \ {"summary"} : again.sheets[n] = out.sheets[n]

C23_SummaryIdempotent ==
    /\ PhosphoWritten => SummaryIdempotent(phospho_out)
    /\ ProteinWritten => SummaryIdempotent(protein_out)

C23_Witness ==
    /\ ProteinWritten
    /\ ~InList("summary", phospho_src.sheetnames)
    /\ phospho_out.sheets["summary"].rows[1].totalNrOfProteins = 2
    /\ Len(protein_out.sheets["diff_exp_analysis_wide"].rows) = 2
    /\ update_summary(protein_out).sheets["summary"].rows[1].NrOfProteinsNoDecoys = 2

(***************************************************************************)
(* C24: the orchestrator's steps happen in one fixed order: site           *)
(* selection on the phospho workbook, protein selection on the protein     *)
(* workbook, removal and re-creation of the output tree, filter and write  *)
(* of the phospho workbook, then of the protein workbook, the phospho and  *)
(* then the protein columnar file, the two metadata copies, the phospho    *)
(* and then the protein annotation file.  A workbook read handle is closed *)
(* before the next one is opened and before anything is written: there are *)
(* never two handles open, and nothing under the output tree is removed,   *)
(* made, written or copied while a read handle is open.                    *)
(***************************************************************************)
RunOrder ==
    <<<<"seed", "random">>,
      <<"open", PhosphoXlsx>>, <<"close", PhosphoXlsx>>,
      <<"open", ProteinXlsx>>, <<"close", ProteinXlsx>>,
      <<"mkdir", cfg.out_dir>>,
      <<"open", PhosphoXlsx>>, <<"close", PhosphoXlsx>>, <<"write", PhosphoXlsx>>,
      <<"open", ProteinXlsx>>, <<"close", ProteinXlsx>>, <<"write", ProteinXlsx>>,
      <<"write", PhosphoParquet>>, <<"write", ProteinParquet>>,
      <<"copy", PhosphoYaml>>, <<"copy", ProteinYaml>>,
      <<"write", PhosphoAnnot>>, <<"write", ProteinAnnot>>>>

IsStep(e) == e[1] \notin {"sample", "rmtree"}

StepsTaken == SelectSeq(events, IsStep)

\* the workbooks with a read handle open after the first k entries
OpenHandles(k) ==
    {events[i][2] : i \in {j \in 1..k : /\ events[j][1] = "open"
                                        /\ \A l \in (j + 1)..k :
                                              events[l] # <<"close", events[j][2]>>}}

C24_OrderAndHandles ==
    LET steps == StepsTaken
        order == RunOrder
    IN /\ Len(steps) <= Len(order)
       /\ steps = SubSeq(order, 1, Len(steps))
       /\ pc = "done" => steps = order
       /\ Cardinality(OpenHandles(Len(events))) <= 1
       /\ \A k \in DOMAIN events :
             /\ events[k][1] = "rmtree" => events[k + 1] = <<"mkdir", cfg.out_dir>>
             /\ events[k][1] \in {"open", "rmtree", "mkdir", "write", "copy"} =>
                   OpenHandles(k - 1) = {}

C24_Witness ==
    /\ pc = "done"
    /\ \E k \in DOMAIN events : events[k] = <<"rmtree", "out">>
    /\ \E k \in DOMAIN events : events[k] = <<"sample", "Y">>
    /\ OpenHandles(2) = {PhosphoXlsx}
    /\ OpenHandles(Len(events)) = {}

(***************************************************************************)
(* C25: the random generator is seeded exactly once per run, as the first  *)
(* thing run_subset does.  It is drawn from only inside select_phosphosites *)
(* (while the first phospho handle is open), in a fixed order: one draw    *)
(* for the complete sample, then at most one draw per kept contrast, in    *)
(* the order of the kept-contrasts list.  Nothing else draws.              *)
(***************************************************************************)
IsSample(e) == e[1] = "sample"

SamplePools ==
    LET samples == SelectSeq(events, IsSample)
    IN [i \in DOMAIN samples |-> samples[i][2]]

PositionIn(lst, c) == CHOOSE i \in DOMAIN lst : lst[i] = c

C25_SeedOnceDrawInOrder ==
    LET pools == SamplePools
    IN /\ events # <<>> => events[1] = <<"seed", "random">>
       /\ \A k \in DOMAIN events : events[k][1] = "seed" => k = 1
       /\ pools # <<>> =>
             /\ events[2] = <<"open", PhosphoXlsx>>
             /\ \A k \in 3..(2 + Len(pools)) : IsSample(events[k])
             /\ pools[1] = "complete"
       /\ \A i \in DOMAIN pools : i > 1 => pools[i] \in Range(cfg.keep_contrasts)
       /\ \A i, j \in DOMAIN pools :
             1 < i /\ i < j =>
                PositionIn(cfg.keep_contrasts, pools[i])
                   < PositionIn(cfg.keep_contrasts, pools[j])
       /\ Len(draws) = Len(pools)
       /\ \A i \in DOMAIN draws : draws[i].pool = pools[i]
       /\ Returned => pools # <<>>

C25_Witness ==
    /\ pc = "done"
    /\ cfg.keep_contrasts = <<"Y", "X">>
    /\ SamplePools = <<"complete", "Y", "X">>
    /\ draws[2].got # {}
    /\ draws[3].got # {}

(***************************************************************************)
(* C26: with n_partial = min(N // 5, total number of entries of the        *)
(* partial pools) and per_contrast = max(1, n_partial // |C|), the pass of *)
(* the loop for a kept contrast c, taken in list order, adds exactly       *)
(* min(per_contrast, number of sites of partial[c] not already selected)   *)
(* sites; the added sites are partial candidates of c and none was already *)
(* selected; what a contrast cannot use of its share goes to no other      *)
(* contrast.                                                               *)
(***************************************************************************)
PoolSize(c) == Cardinality(PartialCandidates(c))

RECURSIVE TotalPoolSize(_)
TotalPoolSize(S) ==
    IF S = {} THEN 0
    ELSE LET c == CHOOSE x \in S : TRUE IN PoolSize(c) + TotalPoolSize(S \ {c})

PerContrast ==
    Max(1, Min(Quota, TotalPoolSize(KeptSet)) \div Len(cfg.keep_contrasts))

PartialPass ==
    /\ pc = "sample_partial"
    /\ ci \in DOMAIN cfg.keep_contrasts

C26_PerContrastExact ==
    [][PartialPass =>
          LET c == cfg.keep_contrasts[ci]
              free == PartialCandidates(c) \ selected_sites
              added == selected_sites' \ selected_sites
          IN /\ selected_sites \subseteq selected_sites'
             /\ added \subseteq free
             /\ Cardinality(added) = Min(PerContrast, Cardinality(free))
             /\ ci' = ci + 1]_vars

C26_Witness ==
    /\ Returned
    /\ cfg.keep_contrasts = <<"X", "Y", "Z">>
    /\ Len(draws) = 3
    /\ Cardinality(draws[2].got) = 2
    /\ Cardinality(draws[3].got) = 1
    /\ PartialCandidates("Y") \cap draws[2].got # {}
    /\ PerContrast = 2

(***************************************************************************)
(* C27 as stated: the complete and the partial quota are independent and   *)
(* nothing is backfilled.  When select_phosphosites returns (the run is at *)
(* select_proteins, the keep-set just bound), the complete sample has      *)
(* min(N, number of complete candidates) sites whatever the partial pools  *)
(* hold; the number of partial sites selected is fixed by N, the kept      *)
(* contrasts and the partial pools alone (every contrast's share           *)
(* min(per_contrast, size of its pool)), whatever the number of complete   *)
(* candidates; with a single kept contrast no partial site is selected.    *)
(***************************************************************************)
RECURSIVE SumOfShares(_, _, _)
SumOfShares(S, per, pools) ==
    IF S = {} THEN 0
    ELSE LET c == CHOOSE x \in S : TRUE
         IN Min(per, Cardinality(pools[c])) + SumOfShares(S \ {c}, per, pools)

RECURSIVE SumOfSizes(_, _)
SumOfSizes(S, pools) ==
    IF S = {} THEN 0
    ELSE LET c == CHOOSE x \in S : TRUE
         IN Cardinality(pools[c]) + SumOfSizes(S \ {c}, pools)

\* every kept contrast's share, min(per_contrast, size of its pool), summed
TotalShare(pools) ==
    LET per == Max(1, Min(Quota, SumOfSizes(KeptSet, pools)) \div Len(cfg.keep_contrasts))
    IN SumOfShares(KeptSet, per, pools)

CompleteQuotaAlone ==
    Cardinality(keep_sites \cap CompleteCandidates)
        = Min(cfg.n_phospho, Cardinality(CompleteCandidates))

SingleContrastNoPartial == Len(cfg.keep_contrasts) = 1 => PartialSelected = {}

C27_QuotasIndependent ==
    pc = "select_proteins" =>
        LET pools == [c \in KeptSet |-> PartialCandidates(c)]
        IN /\ CompleteQuotaAlone
           /\ Cardinality(PartialSelected) = TotalShare(pools)
           /\ SingleContrastNoPartial

(***************************************************************************)
(* C27, amended: as above, but the number of partial sites selected is     *)
(* fixed by N, the kept contrasts and the partial pools only when no site  *)
(* is in two partial pools (always so with at most two kept contrasts);    *)
(* when a site is a partial candidate of several kept contrasts the number *)
(* depends on which sites the earlier draws took, and is at most the sum   *)
(* of the shares.                                                          *)
(***************************************************************************)
PoolsDisjoint(pools) ==
    \A c, d \in DOMAIN pools : c # d => pools[c] \cap pools[d] = {}

C27_IndependentWhenPoolsDisjoint ==
    pc = "select_proteins" =>
        LET pools == [c \in KeptSet |-> PartialCandidates(c)]
            share == TotalShare(pools)
            partial == Cardinality(PartialSelected)
        IN /\ CompleteQuotaAlone
           /\ PoolsDisjoint(pools) => partial = share
           /\ partial <= share
           /\ SingleContrastNoPartial

C27_Witness ==
    /\ pc = "select_proteins"
    /\ Len(cfg.keep_contrasts) = 2
    /\ Cardinality(CompleteCandidates) < cfg.n_phospho
    /\ Cardinality(PartialCandidates("X")) > PerContrast
    /\ PartialCandidates("Y") = {}
    /\ Cardinality(PartialSelected) = 1
    /\ Cardinality(keep_sites) < cfg.n_phospho

(***************************************************************************)
(* C28: once select_phosphosites has returned, no later step changes the   *)
(* site keep-set: a selected site whose owning protein is missing from the *)
(* protein dataset stays selected.  The protein keep-set is not changed    *)
(* after select_proteins has produced it, and the kept-contrasts list is   *)
(* never changed.  The workbook filter and the columnar filter of one      *)
(* dataset are handed the same keep-set: each writes the source keys that  *)
(* are in it.                                                              *)
(***************************************************************************)
Step(from, to) == pc = from /\ pc' = to

C28_KeepSetsFrozen ==
    [][/\ cfg'.keep_contrasts = cfg.keep_contrasts
       /\ Returned => keep_sites' = keep_sites /\ keep_sites = selected_sites
       /\ ProteinsSelected => keep_proteins' = keep_proteins
       /\ Step("filter_phospho_xlsx", "filter_protein_xlsx") =>
             KeysOf(phospho_out'.sheets["diff_exp_analysis_wide"].rows, "site")
                = keep_sites \cap KeysOf(WideRows, "site")
       /\ Step("filter_parquet_phospho", "filter_parquet_protein") =>
             KeysOf(phospho_pq_out', "site") = keep_sites \cap KeysOf(phospho_pq_src, "site")
       /\ Step("filter_protein_xlsx", "filter_parquet_phospho") =>
             KeysOf(protein_out'.sheets["diff_exp_analysis_wide"].rows, "protein_Id")
                = keep_proteins \cap KeysOf(ProteinWideRows, "protein_Id")
       /\ Step("filter_parquet_protein", "copy_yaml") =>
             KeysOf(protein_pq_out', "protein_Id")
                = keep_proteins \cap KeysOf(protein_pq_src, "protein_Id")]_vars

C28_Witness ==
    /\ pc = "done"
    /\ \E s \in keep_sites : site_meta[s].protein_Id \notin keep_proteins
    /\ keep_proteins # {}
    /\ Len(phospho_pq_out) = Cardinality(keep_sites)

(***************************************************************************)
(* C29: the net count of a written summary (NrOfProteinsNoDecoys) is the   *)
(* number of rows of the filtered wide sheet that are neither a decoy nor  *)
(* a contaminant, and so lies between 0 and the total, whatever the        *)
(* combination of the two flags, a row flagged as both included.           *)
(***************************************************************************)
NetCountRight(out) ==
    LET wide == out.sheets["diff_exp_analysis_wide"].rows
        net == out.sheets["summary"].rows[1].NrOfProteinsNoDecoys
    IN /\ net = Cardinality(DOMAIN wide \ (FlaggedRows(wide, "REV") \cup FlaggedRows(wide, "CON")))
       /\ 0 <= net
       /\ net <= Len(wide)

C29_NetCount ==
    /\ PhosphoWritten => NetCountRight(phospho_out)
    /\ ProteinWritten => NetCountRight(protein_out)

(***************************************************************************)
(* C30: on a workbook with the columns it reads, select_phosphosites       *)
(* returns normally for every target N >= 0 and every kept-contrasts list: *)
(* it never ends with an exception; for the empty list both returned sets  *)
(* are empty.                                                              *)
(***************************************************************************)
C30_SelectAlwaysReturns ==
    /\ ~select_raises(phospho_src) => ~(pc = "failed" /\ raised_at \in SelectSteps)
    /\ Returned /\ cfg.keep_contrasts = <<>> => keep_sites = {} /\ phospho_proteins = {}

====
